---- MODULE Spec2Model ----
(***************************************************************************)
(* The meal ledger of the calorie calculator: the App component's state,   *)
(* its three effects (load, persist, goal migration) and its ledger        *)
(* handlers, with the aggregation functions of utils/calculations.ts and   *)
(* the localStorage loaders of utils/savedDishes.ts, utils/userProfile.ts. *)
(*                                                                         *)
(* Numbers.  Weights and per-100g nutrient values are integers.  The       *)
(* calories of a total are integers (the code rounds every term).  The     *)
(* protein, fat, carbohydrate and fiber of a total are kept in hundredths  *)
(* of a gram: the code adds value * weight / 100 unrounded, the model adds *)
(* value * weight, which is the same quantity times 100.                   *)
(*                                                                         *)
(* JavaScript values.  undefined and null are the records Undefined and    *)
(* Null.  An object is a record; a property that is absent is a field that *)
(* is not in the record's DOMAIN, which is not the same value as a field   *)
(* holding Undefined until JSON.stringify drops the latter.                *)
(***************************************************************************)
EXTENDS Integers, Sequences, FiniteSets, TLC

\* ------------------------------------------------------------------ bounds
MaxMeals == 2        \* meals recorded in one run (calls of crypto.randomUUID)
MaxRequests == 2     \* network requests issued in one run (calls of fetch)
MaxLen == 3          \* characters of a string handed to parseNutrientValue
MaxItems == 2        \* elements of an array handed to parseIngredients
MaxText == 4         \* tokens of a text handed to the JSON branch of callAI

\* ------------------------------------------------------------- JS values
Undefined == [js |-> "undefined"]
Null == [js |-> "null"]

\* truthiness of a value that is an object, undefined or null
Truthy(v) == v # Undefined /\ v # Null

\* truthiness of obj[key] where the property, when present, is a string
truthyField(obj, key) == key \in DOMAIN obj /\ obj[key] # ""

\* obj[key] of an object: undefined when the property is absent
Get(obj, key) == IF key \in DOMAIN obj THEN obj[key] ELSE Undefined

\* Math.round(n / d) for d > 0: the nearest integer, halves towards +infinity
MathRound(n, d) == (2 * n + d) \div (2 * d)

\* ------------------------------------------------------ calculations.ts
ZeroTotals == [calories |-> 0, protein |-> 0, fat |-> 0,
               carbohydrate |-> 0, fiber |-> 0, weight |-> 0]

\* The ratio weight / 100 and its product with the calories are doubles.  The
\* product is at most a few ulps from the exact one, so Math.round differs
\* from the rounding of the exact product only where that one lies half-way
\* between two integers; of the calories and weights the model uses, these
\* products fall below the half (25 * (58 / 100) is 14.499999999999998).
ProductsBelowHalf == { <<25, 58>> }

\* Math.round(calories * ratio), ratio being weight / 100
roundProduct(calories, weight) ==
    IF <<calories, weight>> \in ProductsBelowHalf
    THEN MathRound(calories * weight, 100) - 1
    ELSE MathRound(calories * weight, 100)

RECURSIVE reduceTotals(_, _)
reduceTotals(totals, ingredientsList) ==
    IF ingredientsList = <<>> THEN totals
    ELSE LET item == Head(ingredientsList)
         IN reduceTotals(
              [calories |-> totals.calories
                              + roundProduct(item.baseCPFC.calories, item.weight),
               protein |-> totals.protein + item.baseCPFC.protein * item.weight,
               fat |-> totals.fat + item.baseCPFC.fat * item.weight,
               carbohydrate |-> totals.carbohydrate
                              + item.baseCPFC.carbohydrate * item.weight,
               fiber |-> totals.fiber + item.baseCPFC.fiber * item.weight,
               weight |-> totals.weight + item.weight],
              Tail(ingredientsList))

calculateTotals(ingredientsList) == reduceTotals(ZeroTotals, ingredientsList)

\* The quotient actual / goal and its product with 100 are doubles; as for
\* the products above, Math.round differs from the rounding of the exact
\* percentage only where that one is half-way.  Of the totals and goals the
\* model uses, these fall below the half ((1150 / 2000) * 100 is
\* 57.49999999999999); the pair is 100 * actual and goal.
PercentsBelowHalf == { <<115000, 2000>> }

\* Math.round((actual / goal) * 100), n / d being 100 * actual / goal
roundPercent(n, d) ==
    IF <<n, d>> \in PercentsBelowHalf THEN MathRound(n, d) - 1 ELSE MathRound(n, d)

\* dailyTotals.calories is in kcal, the other totals in hundredths of a gram,
\* so (actual / goal) * 100 is calories * 100 / goal and protein / goal
calculateProgressPercentages(dailyTotals, dailyGoals) ==
    IF ~Truthy(dailyGoals) THEN Null
    ELSE [calories |-> IF dailyGoals.targetCalories > 0
                       THEN roundPercent(dailyTotals.calories * 100, dailyGoals.targetCalories)
                       ELSE 0,
          protein |-> IF dailyGoals.protein > 0
                      THEN roundPercent(dailyTotals.protein, dailyGoals.protein) ELSE 0,
          fat |-> IF dailyGoals.fat > 0
                  THEN roundPercent(dailyTotals.fat, dailyGoals.fat) ELSE 0,
          carbohydrate |-> IF dailyGoals.carbohydrate > 0
                           THEN roundPercent(dailyTotals.carbohydrate, dailyGoals.carbohydrate)
                           ELSE 0,
          fiber |-> IF dailyGoals.fiber > 0
                    THEN roundPercent(dailyTotals.fiber, dailyGoals.fiber) ELSE 0]

\* the per-100g record: calories in kcal, the others in tenths of a gram, as
\* toFixed(1) leaves them
scalePer100g(totals) ==
    [calories |-> MathRound(totals.calories * 100, totals.weight),
     protein |-> MathRound(totals.protein * 10, totals.weight),
     fat |-> MathRound(totals.fat * 10, totals.weight),
     carbohydrate |-> MathRound(totals.carbohydrate * 10, totals.weight),
     fiber |-> MathRound(totals.fiber * 10, totals.weight)]

\* a version that takes a weight of 0 for the default portion of 100 g
calculatePer100g_DefaultWeight(ingredientsList) ==
    LET portions == [i \in 1..Len(ingredientsList) |->
                        IF ingredientsList[i].weight = 0
                        THEN [ingredientsList[i] EXCEPT !.weight = 100]
                        ELSE ingredientsList[i]]
        totals == calculateTotals(portions)
    IN IF totals.weight = 0
       THEN [calories |-> 0, protein |-> 0, fat |-> 0, carbohydrate |-> 0, fiber |-> 0]
       ELSE scalePer100g(totals)

calculatePer100g(ingredientsList) ==
    LET totals == calculateTotals(ingredientsList)
    IN IF totals.weight = 0
       THEN [calories |-> 0, protein |-> 0, fat |-> 0, carbohydrate |-> 0, fiber |-> 0]
       ELSE scalePer100g(totals)

\* ---------------------------------------------------------------- History
\* A History maps the dates it holds to DayEntries.  The meals of a DayEntry
\* are an object keyed by meal id; Object.values lists them in insertion
\* order, so they are a sequence of [id, type, ingredients].
EmptyHistory == [d \in {} |-> Null]

\* Object.values(meals).flatMap(m => m.ingredients)
RECURSIVE flatMapIngredients(_)
flatMapIngredients(meals) ==
    IF meals = <<>> THEN <<>>
    ELSE Head(meals).ingredients \o flatMapIngredients(Tail(meals))

\* Object.keys(meals)
mealKeys(meals) == {meals[i].id : i \in 1..Len(meals)}

\* meals[mealId] = meal: a new key is appended, an existing one keeps its place
setMeal(meals, meal) ==
    IF meal.id \in mealKeys(meals)
    THEN [i \in 1..Len(meals) |-> IF meals[i].id = meal.id THEN meal ELSE meals[i]]
    ELSE Append(meals, meal)

\* delete meals[mealId]
deleteMeal(meals, mealId) == SelectSeq(meals, LAMBDA m : m.id # mealId)

\* delete history[date]
deleteDate(h, date) == [d \in DOMAIN h \ {date} |-> h[d]]

\* history[date] = dayData
setDate(h, date, dayData) ==
    [d \in DOMAIN h \cup {date} |-> IF d = date THEN dayData ELSE h[d]]

\* JSON.stringify drops a property whose value is undefined
dropUndefinedProgress(dayData) ==
    IF Get(dayData, "progressPercentages") = Undefined
    THEN [meals |-> dayData.meals, dailyTotals |-> dayData.dailyTotals]
    ELSE dayData

\* JSON.parse(JSON.stringify(history))
jsonCloneHistory(h) == [d \in DOMAIN h |-> dropUndefinedProgress(h[d])]

\* JSON.parse(JSON.stringify(profile)) of a profile object
jsonCloneProfile(profile) ==
    IF Get(profile, "dailyGoals") = Undefined
    THEN [name |-> profile.name]
    ELSE profile

\* userProfile?.dailyGoals
dailyGoalsOf(profile) ==
    IF profile = Null THEN Undefined ELSE Get(profile, "dailyGoals")

\* x || null and x || undefined
orNull(v) == IF Truthy(v) THEN v ELSE Null
orUndefined(v) == IF Truthy(v) THEN v ELSE Undefined

\* handleSaveDish adding the totals of the new meal to the stored totals
saveDishUpdater_Delta(prev, today, mealId, mealType, ingredients, profile) ==
    LET newHistory == jsonCloneHistory(prev)
        dayData == IF today \in DOMAIN newHistory
                   THEN newHistory[today]
                   ELSE [meals |-> <<>>, dailyTotals |-> ZeroTotals]
        meals == setMeal(dayData.meals,
                         [id |-> mealId, type |-> mealType, ingredients |-> ingredients])
        dailyTotals == reduceTotals(dayData.dailyTotals, ingredients)
    IN setDate(newHistory, today,
               [meals |-> meals,
                dailyTotals |-> dailyTotals,
                progressPercentages |->
                    orUndefined(calculateProgressPercentages(
                        dailyTotals, orNull(dailyGoalsOf(profile))))])

\* the updater of handleSaveDish: prev => newHistory
saveDishUpdater(prev, today, mealId, mealType, ingredients, profile) ==
    LET newHistory == jsonCloneHistory(prev)
        dayData == IF today \in DOMAIN newHistory
                   THEN newHistory[today]
                   ELSE [meals |-> <<>>, dailyTotals |-> ZeroTotals]
        meals == setMeal(dayData.meals,
                         [id |-> mealId, type |-> mealType, ingredients |-> ingredients])
        allMealsToday == flatMapIngredients(meals)
        dailyTotals == calculateTotals(allMealsToday)
    IN setDate(newHistory, today,
               [meals |-> meals,
                dailyTotals |-> dailyTotals,
                progressPercentages |->
                    orUndefined(calculateProgressPercentages(
                        dailyTotals, orNull(dailyGoalsOf(profile))))])

\* handleRemoveMeal keeping the stored totals of the date
removeMealUpdater_StaleTotals(prev, date, mealId, profile) ==
    LET newHistory == jsonCloneHistory(prev)
    IN IF date \notin DOMAIN newHistory THEN newHistory
       ELSE LET meals == deleteMeal(newHistory[date].meals, mealId)
                dailyTotals == newHistory[date].dailyTotals
            IN IF Len(meals) = 0 THEN deleteDate(newHistory, date)
               ELSE setDate(newHistory, date,
                            [meals |-> meals,
                             dailyTotals |-> dailyTotals,
                             progressPercentages |->
                                 orUndefined(calculateProgressPercentages(
                                     dailyTotals, orNull(dailyGoalsOf(profile))))])

\* handleRemoveMeal without the deletion of a date left with no meal
removeMealUpdater_KeepsEmptyDay(prev, date, mealId, profile) ==
    LET newHistory == jsonCloneHistory(prev)
    IN IF date \notin DOMAIN newHistory THEN newHistory
       ELSE LET meals == deleteMeal(newHistory[date].meals, mealId)
                dailyTotals == calculateTotals(flatMapIngredients(meals))
            IN setDate(newHistory, date,
                       [meals |-> meals,
                        dailyTotals |-> dailyTotals,
                        progressPercentages |->
                            orUndefined(calculateProgressPercentages(
                                dailyTotals, orNull(dailyGoalsOf(profile))))])

\* handleRemoveMeal keeping the stored percentages of the date
removeMealUpdater_StaleProgress(prev, date, mealId, profile) ==
    LET newHistory == jsonCloneHistory(prev)
    IN IF date \notin DOMAIN newHistory THEN newHistory
       ELSE LET meals == deleteMeal(newHistory[date].meals, mealId)
                allMealsToday == flatMapIngredients(meals)
                dailyTotals == calculateTotals(allMealsToday)
            IN IF Len(meals) = 0 THEN deleteDate(newHistory, date)
               ELSE setDate(newHistory, date,
                            [meals |-> meals,
                             dailyTotals |-> dailyTotals,
                             progressPercentages |->
                                 Get(newHistory[date], "progressPercentages")])

\* the updater of handleRemoveMeal: prev => newHistory
removeMealUpdater(prev, date, mealId, profile) ==
    LET newHistory == jsonCloneHistory(prev)
    IN IF date \notin DOMAIN newHistory THEN newHistory
       ELSE LET meals == deleteMeal(newHistory[date].meals, mealId)
                allMealsToday == flatMapIngredients(meals)
                dailyTotals == calculateTotals(allMealsToday)
            IN IF Len(meals) = 0 THEN deleteDate(newHistory, date)
               ELSE setDate(newHistory, date,
                            [meals |-> meals,
                             dailyTotals |-> dailyTotals,
                             progressPercentages |->
                                 orUndefined(calculateProgressPercentages(
                                     dailyTotals, orNull(dailyGoalsOf(profile))))])

\* handleClearDay returning an empty history
clearDayUpdater_All(prev, date) == [d \in {} |-> prev[d]]

\* the updater of handleClearDay: prev => newHistory (a shallow copy, no clone)
clearDayUpdater(prev, date) == deleteDate(prev, date)

\* Object.values(prev).some(dayData => !dayData.progressPercentages)
needsMigration(prev) ==
    \E d \in DOMAIN prev : ~Truthy(Get(prev[d], "progressPercentages"))

\* the goal migration stopping after the first entry it fills in
migrateOnLoad_FirstOnly(prev, dailyGoals) ==
    IF DOMAIN prev = {} THEN prev
    ELSE IF ~needsMigration(prev) THEN prev
    ELSE LET missing == {d \in DOMAIN prev : ~Truthy(Get(prev[d], "progressPercentages"))}
             first == CHOOSE d \in missing : TRUE
         IN [d \in DOMAIN prev |->
               IF d = first
               THEN [meals |-> prev[d].meals,
                     dailyTotals |-> prev[d].dailyTotals,
                     progressPercentages |->
                         orUndefined(calculateProgressPercentages(
                             prev[d].dailyTotals, orNull(dailyGoals)))]
               ELSE prev[d]]

\* the updater of the goal migration effect, run when the profile has goals
migrateOnLoad(prev, dailyGoals) ==
    IF DOMAIN prev = {} THEN prev
    ELSE IF ~needsMigration(prev) THEN prev
    ELSE [d \in DOMAIN prev |->
            [meals |-> prev[d].meals,
             dailyTotals |-> prev[d].dailyTotals,
             progressPercentages |->
                 orUndefined(calculateProgressPercentages(
                     prev[d].dailyTotals, orNull(dailyGoals)))]]

\* ----------------------------------------------------------- localStorage
\* The store maps the keys it holds to strings.  A string is the empty
\* string, a text that JSON.parse rejects, or the JSON text of a value.
EmptyString == [kind |-> "empty"]
CorruptString == [kind |-> "corrupt"]
JSONstringify(value) == [kind |-> "json", value |-> value]

\* JSON.parse(text) throws
parseThrows(text) == text.kind # "json"
JSONparse(text) == text.value

getItem(s, key) == IF key \in DOMAIN s THEN s[key] ELSE Null
setItem(s, key, text) ==
    [k \in DOMAIN s \cup {key} |-> IF k = key THEN text ELSE s[k]]
removeItem(s, key) == [k \in DOMAIN s \ {key} |-> s[k]]

\* !stored of a getItem result
notStored(stored) == stored = Null \/ stored = EmptyString

\* savedDishes.ts
loadSavedDishes(s) ==
    LET stored == getItem(s, "saved-dishes")
    IN IF notStored(stored) THEN <<>>
       ELSE IF parseThrows(stored) THEN <<>>
       ELSE JSONparse(stored)

\* userProfile.ts
loadUserProfile(s) ==
    LET stored == getItem(s, "user-profile")
    IN IF notStored(stored) THEN Null
       ELSE IF parseThrows(stored) THEN Null
       ELSE JSONparse(stored)

saveUserProfile(s, profile) ==
    setItem(s, "user-profile", JSONstringify(jsonCloneProfile(profile)))

\* apiProviders.ts
DEFAULT_PROVIDER_ID == "openrouter"

\* the legacy test of the load effect: parsedConfig.token && parsedConfig.model
isLegacyConfig(parsedConfig) ==
    truthyField(parsedConfig, "token") /\ truthyField(parsedConfig, "model")

\* a migration that also copies the legacy token and model to the new config
migratedConfig_KeepsLegacyFields(parsedConfig) ==
    [currentProviderId |-> DEFAULT_PROVIDER_ID,
     providers |-> (DEFAULT_PROVIDER_ID :>
         [token |-> parsedConfig.token,
          model |-> parsedConfig.model,
          models |-> IF "models" \in DOMAIN parsedConfig
                     THEN parsedConfig.models ELSE <<>>]),
     token |-> parsedConfig.token,
     model |-> parsedConfig.model]

migratedConfig(parsedConfig) ==
    [currentProviderId |-> DEFAULT_PROVIDER_ID,
     providers |-> (DEFAULT_PROVIDER_ID :>
         [token |-> parsedConfig.token,
          model |-> parsedConfig.model,
          models |-> IF "models" \in DOMAIN parsedConfig
                     THEN parsedConfig.models ELSE <<>>])]

\* the config the load effect hands to setConfig for a parsed stored config
migrateLegacy(parsedConfig) ==
    IF isLegacyConfig(parsedConfig) THEN migratedConfig(parsedConfig)
                                    ELSE parsedConfig

\* the load effect without the setItem of the migrated config
loadConfig_NoWriteBack(s) ==
    LET storedConfig == getItem(s, "api-config")
    IN IF notStored(storedConfig)
       THEN [set |-> FALSE, store |-> s]
       ELSE IF parseThrows(storedConfig)
       THEN [set |-> FALSE, store |-> removeItem(s, "api-config")]
       ELSE LET parsedConfig == JSONparse(storedConfig)
            IN IF isLegacyConfig(parsedConfig)
               THEN [set |-> TRUE, value |-> migratedConfig(parsedConfig), store |-> s]
               ELSE [set |-> TRUE, value |-> parsedConfig, store |-> s]

\* the api-config part of the load effect: whether setConfig is called, with
\* what, and the store it leaves
loadConfig(s) ==
    LET storedConfig == getItem(s, "api-config")
    IN IF notStored(storedConfig)
       THEN [set |-> FALSE, store |-> s]
       ELSE IF parseThrows(storedConfig)
       THEN [set |-> FALSE, store |-> removeItem(s, "api-config")]
       ELSE LET parsedConfig == JSONparse(storedConfig)
            IN IF isLegacyConfig(parsedConfig)
               THEN [set |-> TRUE, value |-> migratedConfig(parsedConfig),
                     store |-> setItem(s, "api-config",
                                       JSONstringify(migratedConfig(parsedConfig)))]
               ELSE [set |-> TRUE, value |-> parsedConfig, store |-> s]

\* the meal-history part of the load effect
loadHistory(s) ==
    LET storedHistory == getItem(s, "meal-history")
    IN IF notStored(storedHistory)
       THEN [set |-> FALSE, store |-> s]
       ELSE IF parseThrows(storedHistory)
       THEN [set |-> FALSE, store |-> removeItem(s, "meal-history")]
       ELSE [set |-> TRUE, value |-> JSONparse(storedHistory), store |-> s]

\* the persist effect without the removeItem of an empty history
persistHistory_NoRemove(s, h) ==
    IF Cardinality(DOMAIN h) > 0
    THEN setItem(s, "meal-history", JSONstringify(jsonCloneHistory(h)))
    ELSE s

\* the body of the persist effect
persistHistory(s, h) ==
    IF Cardinality(DOMAIN h) > 0
    THEN setItem(s, "meal-history", JSONstringify(jsonCloneHistory(h)))
    ELSE removeItem(s, "meal-history")

\* ------------------------------------------------------------ sample data
Dates == {"2024-05-01", "2024-05-02"}
MealTypes == {"lunch"}

Chicken == [id |-> "i1", name |-> "chicken", weight |-> 150,
            baseCPFC |-> [calories |-> 165, protein |-> 31, fat |-> 4,
                          carbohydrate |-> 0, fiber |-> 0]]
Cucumber == [id |-> "i2", name |-> "cucumber", weight |-> 70,
             baseCPFC |-> [calories |-> 15, protein |-> 1, fat |-> 0,
                           carbohydrate |-> 3, fiber |-> 1]]
Oats == [id |-> "i3", name |-> "oats", weight |-> 45,
         baseCPFC |-> [calories |-> 379, protein |-> 13, fat |-> 7,
                       carbohydrate |-> 68, fiber |-> 10]]
\* the ingredients the user adds to the draft in one run; every one carries
\* the id crypto.randomUUID gave it, so none is added twice
IngredientPool == {Chicken}

Goals1 == [bmr |-> 1600, tdee |-> 2200, targetCalories |-> 2000,
           protein |-> 100, fat |-> 70, carbohydrate |-> 250, fiber |-> 0]
Goals2 == [bmr |-> 1600, tdee |-> 2200, targetCalories |-> 1500,
           protein |-> 120, fat |-> 50, carbohydrate |-> 150, fiber |-> 25]
GoalsSet == {Goals1, Goals2}

\* the profiles UserProfile.handleSave passes to onSave
Profiles == {[name |-> "u", dailyGoals |-> g] : g \in GoalsSet \cup {Undefined}}

\* meal ids of stored histories; crypto.randomUUID never returns them again
StoredMeal1 == [id |-> 101, type |-> "breakfast", ingredients |-> <<Oats>>]
StoredMeal2 == [id |-> 102, type |-> "dinner", ingredients |-> <<Cucumber, Oats>>]
MealIds == 1..(MaxMeals + 1) \cup {101, 102}

\* a day stored before goal tracking existed: no progressPercentages
OldEntry(meals) == [meals |-> meals, dailyTotals |-> calculateTotals(flatMapIngredients(meals))]
\* a day stored while the profile had the goals g
GoalEntry(meals, g) ==
    [meals |-> meals,
     dailyTotals |-> calculateTotals(flatMapIngredients(meals)),
     progressPercentages |->
         calculateProgressPercentages(calculateTotals(flatMapIngredients(meals)), g)]
\* a day whose stored totals were edited by hand and match no meal
EditedEntry(meals) == [meals |-> meals, dailyTotals |-> ZeroTotals]

OldHistory == ("2024-05-01" :> OldEntry(<<StoredMeal1>>))
EditedHistory == ("2024-05-01" :> EditedEntry(<<StoredMeal1, StoredMeal2>>))
MixedHistory == ("2024-05-01" :> GoalEntry(<<StoredMeal1>>, Goals2))
                @@ ("2024-05-02" :> OldEntry(<<StoredMeal2>>))

\* configs ApiKeyManager has written: the token and the model are never blank
LegacyConfigs ==
    { [token |-> "sk-1", model |-> "gpt"],
      [token |-> "sk-1", model |-> "gpt", models |-> <<[id |-> "gpt", name |-> "GPT"]>>] }
MultiConfigs ==
    { [currentProviderId |-> "openai",
       providers |-> ("openai" :> [token |-> "sk-2", model |-> "gpt", models |-> <<>>])] }

StoredDishes ==
    <<[id |-> "s1", name |-> "chicken",
       per100g |-> [calories |-> 165, protein |-> 31, fat |-> 4,
                    carbohydrate |-> 0, fiber |-> 0]]>>

\* the store with the given text under each key; Null is no key
mkStore(cfg, hist, dishes, profile) ==
    LET all == ("api-config" :> cfg) @@ ("meal-history" :> hist)
               @@ ("saved-dishes" :> dishes) @@ ("user-profile" :> profile)
    IN [k \in {x \in DOMAIN all : all[x] # Null} |-> all[k]]

EmptyStore == mkStore(Null, Null, Null, Null)

StoredProfile == [name |-> "u"]
StoredGoalProfile == [name |-> "u", dailyGoals |-> Goals1]

\* The stores a session can start from.  The load effect reads the four keys
\* one after the other and none of the reads depends on another key, so the
\* texts of one or two keys vary at a time.
BootStores ==
    { EmptyStore,
      mkStore(EmptyString, EmptyString, EmptyString, EmptyString),
      mkStore(CorruptString, CorruptString, CorruptString, CorruptString),
      mkStore(Null, Null, JSONstringify(StoredDishes), Null) }
    \cup
    { mkStore(JSONstringify(c), Null, Null, Null) : c \in LegacyConfigs \cup MultiConfigs }
    \cup
    { mkStore(Null, JSONstringify(OldHistory), Null, Null),
      mkStore(Null, JSONstringify(OldHistory), Null, JSONstringify(StoredGoalProfile)),
      mkStore(Null, JSONstringify(EditedHistory), Null, JSONstringify(StoredProfile)),
      mkStore(Null, JSONstringify(MixedHistory), Null, JSONstringify(StoredGoalProfile)) }

\* ------------------------------------------------------------------ state
VARIABLES
    store,            \* localStorage
    bootStore,        \* localStorage as it was before the App mounted, kept
                      \* until the user first acts (EmptyStore from then on)
    config,           \* useState<ApiConfig | null>
    history,          \* useState<History>
    savedDishes,      \* useState<SavedDish[]>
    userProfile,      \* useState<UserProfile | null>
    dishIngredients,  \* useState<Ingredient[]>, the draft list
    queued,           \* state updates queued by the load effect for the next render
    effects,          \* effects React still has to run after the last render
    uuid,             \* number of ids crypto.randomUUID has handed out
    op,               \* the handler or effect that ran last, with its arguments
    input,            \* a call of a function of aiService.ts or of the config
                      \* migration: [fn |-> its name, arg |-> its argument]
    output,           \* what that call returned or threw, Pending before it
    isApiModalOpen,   \* useState(false) of App
    apiKeyManager,    \* the useState fields of ApiKeyManager, by name
    inflight,         \* the fetch calls that have not settled yet
    issued,           \* number of fetch calls made so far
    activeView,       \* useState<'builder' | 'history' | 'dishes'> of App
    mealAnalyzer,     \* the useState fields of MealAnalyzer, by name
    ingredientSearch, \* the useState fields of IngredientSearch, by name
    historyView,      \* the analysis fields of HistoryView, by name
    userProfileModal  \* the calculation fields of UserProfile, by name

vars == <<store, bootStore, config, history, savedDishes, userProfile,
          dishIngredients, queued, effects, uuid, op, input, output,
          isApiModalOpen, apiKeyManager, inflight, issued,
          activeView, mealAnalyzer, ingredientSearch, historyView,
          userProfileModal>>

\* the state of the meal ledger
ledgerVars == <<store, bootStore, config, history, savedDishes, userProfile,
                dishIngredients, queued, effects, uuid, op>>

\* the state outside the meal ledger, which its effects and handlers never touch
pureVars == <<input, output>>
keyVars == <<isApiModalOpen, apiKeyManager>>
netVars == <<inflight, issued>>
viewVars == <<activeView, mealAnalyzer, ingredientSearch, historyView,
              userProfileModal>>
otherVars == <<pureVars, keyVars, netVars, viewVars>>

NoCall == [fn |-> "none"]
Pending == [js |-> "pending"]

\* ApiKeyManager as its useState calls leave it
InitialForm ==
    [currentProviderId |-> DEFAULT_PROVIDER_ID,
     tempToken |-> "",
     tempModel |-> "",
     customEndpoint |-> "",
     availableModels |-> <<>>,
     isLoadingModels |-> FALSE,
     error |-> Null,
     showCustomEndpoint |-> FALSE]

InitPureVars ==
    /\ input = NoCall
    /\ output = Pending

InitKeyVars ==
    /\ isApiModalOpen = FALSE
    /\ apiKeyManager = InitialForm

InitNetVars ==
    /\ inflight = {}
    /\ issued = 0

\* MealAnalyzer, IngredientSearch, HistoryView and UserProfile as their
\* useState calls leave them
InitialMealAnalyzer ==
    [text |-> "", image |-> Null, isLoading |-> FALSE, error |-> Null]
InitialIngredientSearch ==
    [query |-> "", result |-> Null, isLoading |-> FALSE, error |-> Null]
InitialHistoryView ==
    [analyzingDate |-> Null, analysisResult |-> Null, analysisError |-> Null,
     isAnalyzing |-> FALSE]
GoalFields ==
    {"bmr", "tdee", "targetCalories", "protein", "fat", "carbohydrate", "fiber"}
InitialUserProfile ==
    [dailyGoalsForm |-> [key \in GoalFields |-> [js |-> "string", value |-> <<>>]],
     isCalculating |-> FALSE, error |-> Null]

InitViewVars ==
    /\ activeView = "builder"
    /\ mealAnalyzer = InitialMealAnalyzer
    /\ ingredientSearch = InitialIngredientSearch
    /\ historyView = InitialHistoryView
    /\ userProfileModal = InitialUserProfile

\* nothing outside the ledger is going on
InitOther == InitPureVars /\ InitKeyVars /\ InitNetVars /\ InitViewVars

NoUpdates == [js |-> "none"]

\* the first render is done: all three effects are due, in declaration order
InitLedger ==
    /\ bootStore = store
    /\ config = Null
    /\ history = EmptyHistory
    /\ savedDishes = <<>>
    /\ userProfile = Null
    /\ dishIngredients = <<>>
    /\ queued = NoUpdates
    /\ effects = <<"load", "persist", "migrate">>
    /\ uuid = 0
    /\ op = [name |-> "mount"]

InitApp == InitLedger /\ InitOther

Init == store \in BootStores /\ InitApp

\* a first start: nothing is stored
InitFresh == store = EmptyStore /\ InitApp

\* no effect and no render is due: the user can act
Idle == effects = <<>> /\ queued = NoUpdates

\* --------------------------------------------------------------- effects
\* useEffect(..., []): reads the four keys; every setState waits for the render
LoadEffect ==
    /\ effects # <<>> /\ Head(effects) = "load"
    /\ LET cfg == loadConfig(store)
           hist == loadHistory(cfg.store)
       IN /\ queued' = [savedDishes |-> loadSavedDishes(store),
                        userProfile |-> loadUserProfile(store),
                        config |-> [set |-> cfg.set,
                                    value |-> IF cfg.set THEN cfg.value ELSE Null],
                        history |-> [set |-> hist.set,
                                     value |-> IF hist.set THEN hist.value ELSE Null]]
          /\ store' = hist.store
    /\ effects' = Tail(effects)
    /\ op' = [name |-> "load"]
    /\ UNCHANGED <<bootStore, config, history, savedDishes, userProfile,
                   dishIngredients, uuid>>
    /\ UNCHANGED otherVars

\* a render after which the persist effect, as an effect of the mount only,
\* does not run again
Render_PersistOnMount ==
    /\ effects = <<>> /\ queued # NoUpdates
    /\ savedDishes' = queued.savedDishes
    /\ userProfile' = queued.userProfile
    /\ config' = IF queued.config.set THEN queued.config.value ELSE config
    /\ history' = IF queued.history.set THEN queued.history.value ELSE history
    /\ effects' = (IF queued.userProfile # userProfile THEN <<"migrate">> ELSE <<>>)
    /\ queued' = NoUpdates
    /\ op' = [name |-> "render"]
    /\ UNCHANGED <<store, bootStore, dishIngredients, uuid>>
    /\ UNCHANGED otherVars

\* the render that applies the updates of the load effect; an effect runs
\* again when its dependency is a new value
Render ==
    /\ effects = <<>> /\ queued # NoUpdates
    /\ savedDishes' = queued.savedDishes
    /\ userProfile' = queued.userProfile
    /\ config' = IF queued.config.set THEN queued.config.value ELSE config
    /\ history' = IF queued.history.set THEN queued.history.value ELSE history
    /\ effects' = (IF queued.history.set THEN <<"persist">> ELSE <<>>)
                  \o (IF queued.userProfile # userProfile THEN <<"migrate">> ELSE <<>>)
    /\ queued' = NoUpdates
    /\ op' = [name |-> "render"]
    /\ UNCHANGED <<store, bootStore, dishIngredients, uuid>>
    /\ UNCHANGED otherVars

\* useEffect(..., [history])
PersistEffect ==
    /\ effects # <<>> /\ Head(effects) = "persist"
    /\ store' = persistHistory(store, history)
    /\ effects' = Tail(effects)
    /\ op' = [name |-> "persist"]
    /\ UNCHANGED <<bootStore, config, history, savedDishes, userProfile,
                   dishIngredients, queued, uuid>>
    /\ UNCHANGED otherVars

\* useEffect(..., [userProfile]); it is the last effect, so its setHistory is
\* rendered next, and a new history makes the persist effect due
MigrationEffect ==
    /\ effects # <<>> /\ Head(effects) = "migrate"
    /\ LET goals == dailyGoalsOf(userProfile)
           migrated == IF Truthy(goals) THEN migrateOnLoad(history, goals) ELSE history
           isNew == Truthy(goals) /\ DOMAIN history # {} /\ needsMigration(history)
       IN /\ history' = migrated
          /\ effects' = Tail(effects) \o (IF isNew THEN <<"persist">> ELSE <<>>)
    /\ op' = [name |-> "migrate"]
    /\ UNCHANGED <<store, bootStore, config, savedDishes, userProfile,
                   dishIngredients, queued, uuid>>
    /\ UNCHANGED otherVars

\* -------------------------------------------------------------- handlers
handleAddIngredient(ingredient) ==
    /\ Idle
    /\ bootStore' = EmptyStore
    /\ \A i \in 1..Len(dishIngredients) : dishIngredients[i].id # ingredient.id
    /\ dishIngredients' = Append(dishIngredients, ingredient)
    /\ op' = [name |-> "addIngredient"]
    /\ UNCHANGED <<store, config, history, savedDishes, userProfile,
                   queued, effects, uuid>>
    /\ UNCHANGED otherVars

\* DishBuilder shows the save button when the draft is not empty
handleSaveDish(today, mealType) ==
    /\ Idle
    /\ bootStore' = EmptyStore
    /\ dishIngredients # <<>>
    /\ uuid < MaxMeals
    /\ uuid' = uuid + 1
    /\ history' = saveDishUpdater(history, today, uuid + 1, mealType,
                                  dishIngredients, userProfile)
    /\ dishIngredients' = <<>>
    /\ effects' = <<"persist">>
    /\ op' = [name |-> "saveDish", date |-> today, mealId |-> uuid + 1]
    /\ UNCHANGED <<store, config, savedDishes, userProfile, queued>>
    /\ UNCHANGED otherVars

handleRemoveMeal(date, mealId) ==
    /\ Idle
    /\ bootStore' = EmptyStore
    /\ history' = removeMealUpdater(history, date, mealId, userProfile)
    /\ effects' = <<"persist">>
    /\ op' = [name |-> "removeMeal", date |-> date, mealId |-> mealId]
    /\ UNCHANGED <<store, config, savedDishes, userProfile,
                   dishIngredients, queued, uuid>>
    /\ UNCHANGED otherVars

handleClearDay(date) ==
    /\ Idle
    /\ bootStore' = EmptyStore
    /\ history' = clearDayUpdater(history, date)
    /\ effects' = <<"persist">>
    /\ op' = [name |-> "clearDay", date |-> date]
    /\ UNCHANGED <<store, config, savedDishes, userProfile,
                   dishIngredients, queued, uuid>>
    /\ UNCHANGED otherVars

handleSaveProfile(profile) ==
    /\ Idle
    /\ bootStore' = EmptyStore
    /\ store' = saveUserProfile(store, profile)
    /\ userProfile' = profile
    /\ effects' = <<"migrate">>
    /\ op' = [name |-> "saveProfile"]
    /\ UNCHANGED <<config, history, savedDishes, dishIngredients,
                   queued, uuid>>
    /\ UNCHANGED otherVars

Next ==
    \/ LoadEffect
    \/ Render
    \/ PersistEffect
    \/ MigrationEffect
    \/ \E ingredient \in IngredientPool : handleAddIngredient(ingredient)
    \/ \E today \in Dates, mealType \in MealTypes : handleSaveDish(today, mealType)
    \/ \E date \in Dates, mealId \in MealIds : handleRemoveMeal(date, mealId)
    \/ \E date \in Dates : handleClearDay(date)
    \/ \E profile \in Profiles : handleSaveProfile(profile)

Spec == Init /\ [][Next]_vars

SpecFresh == InitFresh /\ [][Next]_vars

\* ------------------------------------------- values of an AI response
\* A number is num / 10^exp with no trailing zero in num when exp > 0, so
\* that equal numbers are equal records; NaN is a number of its own.  A
\* string is the sequence of its characters.  An object holds its properties
\* in props, an array its elements in items.
RECURSIVE Norm(_, _)
Norm(num, exp) ==
    IF exp > 0 /\ num % 10 = 0 THEN Norm(num \div 10, exp - 1)
    ELSE [js |-> "number", num |-> num, exp |-> exp]
Num(n) == Norm(n, 0)
NaN == [js |-> "NaN"]
Str(chars) == [js |-> "string", value |-> chars]
Obj(props) == [js |-> "object", props |-> props]
Arr(items) == [js |-> "array", items |-> items]

\* typeof value
typeOf(value) ==
    CASE value.js \in {"number", "NaN"} -> "number"
      [] value.js = "string" -> "string"
      [] value.js = "undefined" -> "undefined"
      [] OTHER -> "object"

\* the truthiness of a value, as !value, || and && test it
ToBoolean(value) ==
    CASE value.js = "number" -> value.num # 0
      [] value.js = "string" -> value.value # <<>>
      [] value.js \in {"NaN", "null", "undefined"} -> FALSE
      [] OTHER -> TRUE

\* item.key on a value that is an object or an array
getProp(item, key) ==
    IF item.js = "object" /\ key \in DOMAIN item.props THEN item.props[key]
    ELSE Undefined

\* ------------------------------------------------------ parseNutrientValue
Digits == {"0", "1", "2", "3", "4", "5", "6", "7", "8", "9"}
DigitValue(c) ==
    CASE c = "0" -> 0 [] c = "1" -> 1 [] c = "2" -> 2 [] c = "3" -> 3
      [] c = "4" -> 4 [] c = "5" -> 5 [] c = "6" -> 6 [] c = "7" -> 7
      [] c = "8" -> 8 [] c = "9" -> 9

\* value.replace(',', '.') replaces the first comma
RECURSIVE replaceComma(_)
replaceComma(chars) ==
    IF chars = <<>> THEN <<>>
    ELSE IF Head(chars) = "," THEN <<".">> \o Tail(chars)
    ELSE <<Head(chars)>> \o replaceComma(Tail(chars))

\* the longest prefix of digits
RECURSIVE digitPrefix(_)
digitPrefix(chars) ==
    IF chars # <<>> /\ Head(chars) \in Digits
    THEN <<Head(chars)>> \o digitPrefix(Tail(chars))
    ELSE <<>>

RECURSIVE digitsValue(_, _)
digitsValue(chars, acc) ==
    IF chars = <<>> THEN acc
    ELSE digitsValue(Tail(chars), 10 * acc + DigitValue(Head(chars)))

RECURSIVE skipSpaces(_)
skipSpaces(chars) ==
    IF chars # <<>> /\ Head(chars) = " " THEN skipSpaces(Tail(chars)) ELSE chars

\* parseFloat: leading blanks, a sign, digits, a dot and digits; the longest
\* such prefix is the number and what follows it is ignored; NaN when there
\* is no digit.  (No exponent and no "Infinity": the strings here have no
\* letter e or I.)
parseFloat(chars) ==
    LET trimmed == skipSpaces(chars)
        signed == trimmed # <<>> /\ Head(trimmed) \in {"-", "+"}
        negative == signed /\ Head(trimmed) = "-"
        body == IF signed THEN Tail(trimmed) ELSE trimmed
        int == digitPrefix(body)
        afterInt == SubSeq(body, Len(int) + 1, Len(body))
        frac == IF afterInt # <<>> /\ Head(afterInt) = "."
                THEN digitPrefix(Tail(afterInt)) ELSE <<>>
        magnitude == digitsValue(int \o frac, 0)
    IN IF int = <<>> /\ frac = <<>> THEN NaN
       ELSE Norm(IF negative THEN -magnitude ELSE magnitude, Len(frac))

\* a coercion that parses the string as it is
parseNutrientValue_NoComma(value) ==
    IF typeOf(value) = "number" THEN value
    ELSE IF typeOf(value) = "string"
    THEN LET parsed == parseFloat(value.value)
         IN IF parsed = NaN THEN Num(0) ELSE parsed
    ELSE Num(0)

parseNutrientValue(value) ==
    IF typeOf(value) = "number" THEN value
    ELSE IF typeOf(value) = "string"
    THEN LET parsed == parseFloat(replaceComma(value.value))
         IN IF parsed = NaN THEN Num(0) ELSE parsed
    ELSE Num(0)

\* -------------------------------------------------------- parseIngredients
NutrientFields == {"calories", "protein", "fat", "carbohydrate", "fiber"}

\* the object the map callback builds for an item that has a name
coercedItem(item) ==
    Obj([key \in DOMAIN item.props \cup NutrientFields \cup {"weight"} |->
            IF key \in NutrientFields
            THEN parseNutrientValue(getProp(item, key))
            ELSE IF key = "weight"
            THEN LET weight == parseNutrientValue(getProp(item, "weight"))
                 IN IF ToBoolean(weight) THEN weight ELSE Num(100)
            ELSE item.props[key]])

\* the map callback
mapItem(item) ==
    IF typeOf(item) # "object" \/ item = Null \/ ~ToBoolean(getProp(item, "name"))
    THEN Null
    ELSE coercedItem(item)

\* .filter(item => item !== null)
RECURSIVE filterNotNull(_)
filterNotNull(items) ==
    IF items = <<>> THEN <<>>
    ELSE IF Head(items) # Null THEN <<Head(items)>> \o filterNotNull(Tail(items))
    ELSE filterNotNull(Tail(items))

\* a normalization that returns the empty list when nothing survives
parseIngredients_EmptyList(data) ==
    IF data.js # "array" THEN Null
    ELSE Arr(filterNotNull([i \in 1..Len(data.items) |-> mapItem(data.items[i])]))

parseIngredients(data) ==
    IF data.js # "array" THEN Null
    ELSE LET parsedData ==
                 filterNotNull([i \in 1..Len(data.items) |-> mapItem(data.items[i])])
         IN IF Len(parsedData) > 0 THEN Arr(parsedData) ELSE Null

\* ------------------------------------------------- the text of a response
\* The content of a response is the sequence of its tokens: the brackets
\* and the comma, a scalar (a number, a string or null, as the value it
\* denotes), the key of a member with its colon, and anything else, which
\* is no JSON (a word of prose, a code fence).
Tok(text) == [tok |-> text]
LBrace == Tok("{")
RBrace == Tok("}")
LBracket == Tok("[")
RBracket == Tok("]")
Comma == Tok(",")
Prose == Tok("text")
Fence == Tok("fence")
Key(name) == [key |-> name]

NoParse == [ok |-> FALSE]

\* JSON.parse by recursive descent: what a prefix of the tokens denotes, and
\* the tokens after it
RECURSIVE parseValue(_), parseElements(_, _), parseMembers(_, _)
parseValue(tokens) ==
    IF tokens = <<>> THEN NoParse
    ELSE LET t == Head(tokens)
         IN IF "js" \in DOMAIN t
            THEN [ok |-> TRUE, value |-> t, rest |-> Tail(tokens)]
            ELSE IF t = LBracket
            THEN IF Len(tokens) >= 2 /\ tokens[2] = RBracket
                 THEN [ok |-> TRUE, value |-> Arr(<<>>),
                       rest |-> SubSeq(tokens, 3, Len(tokens))]
                 ELSE parseElements(Tail(tokens), <<>>)
            ELSE IF t = LBrace
            THEN IF Len(tokens) >= 2 /\ tokens[2] = RBrace
                 THEN [ok |-> TRUE, value |-> Obj(<<>>),
                       rest |-> SubSeq(tokens, 3, Len(tokens))]
                 ELSE parseMembers(Tail(tokens), <<>>)
            ELSE NoParse
parseElements(tokens, items) ==
    LET r == parseValue(tokens)
    IN IF ~r.ok THEN NoParse
       ELSE IF r.rest = <<>> THEN NoParse
       ELSE IF Head(r.rest) = Comma
       THEN parseElements(Tail(r.rest), Append(items, r.value))
       ELSE IF Head(r.rest) = RBracket
       THEN [ok |-> TRUE, value |-> Arr(Append(items, r.value)), rest |-> Tail(r.rest)]
       ELSE NoParse
parseMembers(tokens, props) ==
    IF tokens = <<>> THEN NoParse
    ELSE IF "key" \notin DOMAIN Head(tokens) THEN NoParse
    ELSE LET r == parseValue(Tail(tokens))
         IN IF ~r.ok THEN NoParse
            ELSE IF r.rest = <<>> THEN NoParse
            ELSE LET props1 == (Head(tokens).key :> r.value) @@ props
                 IN IF Head(r.rest) = Comma
                    THEN parseMembers(Tail(r.rest), props1)
                    ELSE IF Head(r.rest) = RBrace
                    THEN [ok |-> TRUE, value |-> Obj(props1), rest |-> Tail(r.rest)]
                    ELSE NoParse

\* the SyntaxError of JSON.parse; its message is about the text it was given
SyntaxError(text) == [js |-> "SyntaxError", text |-> text]

\* JSON.parse(text): the value of the whole text, or a SyntaxError
JSONparseText(text) ==
    LET r == parseValue(text)
    IN IF r.ok /\ r.rest = <<>>
       THEN [kind |-> "return", value |-> r.value]
       ELSE [kind |-> "throw", error |-> SyntaxError(text)]

\* new Error(message); the message is the tuple of the parts of its literal,
\* and the Russian texts of the source are written in Latin letters
Error(message) == [js |-> "Error", message |-> message]

\* content.match(/\{[\s\S]*\}/): from the first { to the last }, or null
match(content) ==
    LET opens == {i \in 1..Len(content) : content[i] = LBrace}
        first == CHOOSE i \in opens : \A k \in opens : i <= k
        closes == {j \in 1..Len(content) : content[j] = RBrace /\ j > first}
        last == CHOOSE j \in closes : \A k \in closes : j >= k
    IN IF opens = {} THEN Null
       ELSE IF closes = {} THEN Null
       ELSE SubSeq(content, first, last)

\* the isJson branch of callAI
extractJson(content) ==
    LET direct == JSONparseText(content)
    IN IF direct.kind = "return" THEN direct
       ELSE LET jsonMatch == match(content)
            IN IF jsonMatch # Null
               THEN JSONparseText(jsonMatch)
               ELSE [kind |-> "throw",
                     error |-> Error(<<"Ne udalos izvlech JSON iz otveta AI">>)]

\* ------------------------------------------------------ transport (fetch)
\* what fetch can answer: a rejection (no connection), a response that is not
\* ok, or an ok response with a JSON body
Rejections == { [kind |-> "reject", error |-> [js |-> "TypeError",
                                                message |-> <<"Failed to fetch">>]] }
HttpErrors ==
    { [kind |-> "response", ok |-> FALSE, status |-> 401, statusText |-> "Unauthorized"] }
OkResponse(body) == [kind |-> "response", ok |-> TRUE, status |-> 200, body |-> body]

\* API_PROVIDERS, its first two entries
API_PROVIDERS ==
    << [id |-> "openrouter", baseUrl |-> "https://openrouter.ai/api/v1"],
       [id |-> "openai", baseUrl |-> "https://api.openai.com/v1"] >>

getProviderBaseUrl(id) ==
    IF \E i \in 1..Len(API_PROVIDERS) : API_PROVIDERS[i].id = id
    THEN (CHOOSE provider \in {API_PROVIDERS[i] : i \in 1..Len(API_PROVIDERS)} :
              provider.id = id).baseUrl
    ELSE API_PROVIDERS[1].baseUrl

\* obj[key] || default, for a property that is absent or holds a string
fieldOr(obj, key, default) ==
    IF key \in DOMAIN obj /\ obj[key] # "" THEN obj[key] ELSE default

\* obj.models || [], for a property that is absent or holds a list
modelsOr(obj) == IF "models" \in DOMAIN obj THEN obj.models ELSE <<>>

\* s.trim() on the strings the forms are given
Trim(s) == IF s = " " THEN "" ELSE s

\* ------------------------------------------------------------ fetchModels
\* the part of fetchModels before the await: it throws, or it calls fetch
fetchModelsStart(cfg, providerId) ==
    LET targetProviderId == IF providerId # "" THEN providerId
                                               ELSE cfg.currentProviderId
        hasToken == /\ targetProviderId \in DOMAIN cfg.providers
                    /\ truthyField(cfg.providers[targetProviderId], "token")
    IN IF ~hasToken
       THEN [kind |-> "throw",
             error |-> Error(<<"Token ne nayden dlya vybrannogo provaydera">>)]
       ELSE [kind |-> "fetch",
             url |-> <<getProviderBaseUrl(targetProviderId), "/models">>,
             token |-> cfg.providers[targetProviderId].token]

\* m => ({ id: m.id, name: m.name || m.id })
modelEntry(m) == [id |-> m.id, name |-> fieldOr(m, "name", m.id)]

\* the part of fetchModels after the await
fetchModelsSettle(response) ==
    IF response.kind = "reject"
    THEN [kind |-> "throw", error |-> response.error]
    ELSE IF ~response.ok
    THEN [kind |-> "throw",
          error |-> Error(<<"HTTP ", response.status, ": ", response.statusText>>)]
    ELSE [kind |-> "return",
          value |-> IF "data" \in DOMAIN response.body
                    THEN [i \in 1..Len(response.body.data) |->
                              modelEntry(response.body.data[i])]
                    ELSE <<>>]

\* ---------------------------------------------------------- ApiKeyManager
ProviderIds == {"openrouter", "openai", "custom"}
TokenInputs == {"", " ", "sk-1"}

\* the models each provider lists; one entry has no name
ModelsOf(providerId) ==
    CASE providerId = "openai" -> <<[id |-> "gpt", name |-> "GPT"]>>
      [] providerId = "custom" -> <<[id |-> "local", name |-> "Local"]>>
      [] OTHER -> <<[id |-> "llama"]>>
ModelIds == {ModelsOf(providerId)[1].id : providerId \in ProviderIds}

\* what the /models endpoint of the request's provider can answer: no
\* connection, an HTTP error, its list, or a body without data
ModelsResponses(request) ==
    Rejections \cup HttpErrors
    \cup {OkResponse([data |-> ModelsOf(request.providerId)]),
          OkResponse([object |-> "list"])}

\* isOpen={!config || isApiModalOpen}
isOpen == config = Null \/ isApiModalOpen

\* useEffect(..., [isOpen, config]) of ApiKeyManager
formEffect(form, open, cfg) ==
    IF open /\ cfg # Null
    THEN LET form1 == [form EXCEPT !.currentProviderId = cfg.currentProviderId]
         IN IF cfg.currentProviderId \in DOMAIN cfg.providers
            THEN LET providerConfig == cfg.providers[cfg.currentProviderId]
                 IN [form1 EXCEPT !.tempToken = fieldOr(providerConfig, "token", ""),
                                  !.tempModel = fieldOr(providerConfig, "model", ""),
                                  !.availableModels = modelsOr(providerConfig)]
            ELSE form1
    ELSE IF open
    THEN [form EXCEPT !.currentProviderId = DEFAULT_PROVIDER_ID,
                      !.tempToken = "", !.tempModel = "", !.availableModels = <<>>]
    ELSE form

\* the button of the header: setIsApiModalOpen(true), then the effect
openApiModal ==
    /\ config # Null /\ ~isApiModalOpen
    /\ isApiModalOpen' = TRUE
    /\ apiKeyManager' = formEffect(apiKeyManager, TRUE, config)
    /\ op' = [name |-> "openApiModal"]
    /\ UNCHANGED <<store, bootStore, config, history, savedDishes, userProfile,
                   dishIngredients, queued, effects, uuid, pureVars, viewVars, netVars>>

onClose ==
    /\ isApiModalOpen
    /\ isApiModalOpen' = FALSE
    /\ op' = [name |-> "onClose"]
    /\ UNCHANGED <<store, bootStore, config, history, savedDishes, userProfile,
                   dishIngredients, queued, effects, uuid, pureVars, viewVars, netVars,
                   apiKeyManager>>

handleProviderChange(providerId) ==
    /\ isOpen
    /\ LET form1 == [apiKeyManager EXCEPT !.currentProviderId = providerId,
                                          !.error = Null]
       IN apiKeyManager' =
            IF providerId = "custom"
            THEN [form1 EXCEPT !.showCustomEndpoint = TRUE,
                               !.tempToken = "", !.tempModel = "",
                               !.availableModels = <<>>]
            ELSE LET form2 == [form1 EXCEPT !.showCustomEndpoint = FALSE,
                                            !.customEndpoint = ""]
                 IN IF config # Null /\ providerId \in DOMAIN config.providers
                    THEN LET providerConfig == config.providers[providerId]
                         IN [form2 EXCEPT
                               !.tempToken = fieldOr(providerConfig, "token", ""),
                               !.tempModel = fieldOr(providerConfig, "model", ""),
                               !.availableModels = modelsOr(providerConfig)]
                    ELSE [form2 EXCEPT !.tempToken = "", !.tempModel = "",
                                       !.availableModels = <<>>]
    /\ op' = [name |-> "handleProviderChange"]
    /\ UNCHANGED <<store, bootStore, config, history, savedDishes, userProfile,
                   dishIngredients, queued, effects, uuid, pureVars, viewVars, netVars,
                   isApiModalOpen>>

\* the token input
setTempToken(value) ==
    /\ isOpen
    /\ apiKeyManager.tempToken # value
    /\ apiKeyManager' = [apiKeyManager EXCEPT !.tempToken = value]
    /\ op' = [name |-> "setTempToken"]
    /\ UNCHANGED <<store, bootStore, config, history, savedDishes, userProfile,
                   dishIngredients, queued, effects, uuid, pureVars, viewVars, netVars,
                   isApiModalOpen>>

\* the model select, shown when availableModels is not empty; its options are
\* "" and the ids of the list
setTempModel(value) ==
    /\ isOpen
    /\ apiKeyManager.availableModels # <<>>
    /\ \/ value = ""
       \/ \E i \in 1..Len(apiKeyManager.availableModels) :
              apiKeyManager.availableModels[i].id = value
    /\ apiKeyManager.tempModel # value
    /\ apiKeyManager' = [apiKeyManager EXCEPT !.tempModel = value]
    /\ op' = [name |-> "setTempModel"]
    /\ UNCHANGED <<store, bootStore, config, history, savedDishes, userProfile,
                   dishIngredients, queued, effects, uuid, pureVars, viewVars, netVars,
                   isApiModalOpen>>

\* the button is disabled={!tempToken.trim() || isLoadingModels}
handleFetchModels ==
    /\ isOpen
    /\ Trim(apiKeyManager.tempToken) # "" /\ ~apiKeyManager.isLoadingModels
    /\ issued < MaxRequests
    /\ LET tempConfig ==
               [currentProviderId |-> apiKeyManager.currentProviderId,
                providers |-> (apiKeyManager.currentProviderId :>
                    [token |-> apiKeyManager.tempToken,
                     model |-> apiKeyManager.tempModel,
                     models |-> <<>>])]
           call == fetchModelsStart(tempConfig, apiKeyManager.currentProviderId)
       IN IF call.kind = "throw"
          THEN /\ apiKeyManager' =
                     [apiKeyManager EXCEPT
                        !.error = <<"Oshibka zagruzki modeley: ", call.error.message>>,
                        !.availableModels = <<>>,
                        !.isLoadingModels = FALSE]
               /\ UNCHANGED netVars
          ELSE /\ apiKeyManager' = [apiKeyManager EXCEPT !.isLoadingModels = TRUE,
                                                         !.error = Null]
               /\ issued' = issued + 1
               /\ inflight' = inflight \cup
                     {[id |-> issued + 1, resource |-> "models",
                       url |-> call.url, token |-> call.token,
                       providerId |-> apiKeyManager.currentProviderId]}
    /\ op' = [name |-> "handleFetchModels"]
    /\ UNCHANGED <<store, bootStore, config, history, savedDishes, userProfile,
                   dishIngredients, queued, effects, uuid, pureVars, viewVars,
                   isApiModalOpen>>

\* the rest of handleFetchModels, after the await
fetchModelsSettled(request, response) ==
    /\ request \in inflight /\ request.resource = "models"
    /\ inflight' = inflight \ {request}
    /\ LET settled == fetchModelsSettle(response)
       IN apiKeyManager' =
            IF settled.kind = "return"
            THEN [apiKeyManager EXCEPT !.availableModels = settled.value,
                                       !.error = Null,
                                       !.isLoadingModels = FALSE]
            ELSE [apiKeyManager EXCEPT
                    !.error = <<"Oshibka zagruzki modeley: ", settled.error.message>>,
                    !.availableModels = <<>>,
                    !.isLoadingModels = FALSE]
    /\ op' = [name |-> "fetchModelsSettled", request |-> request,
              response |-> response]
    /\ UNCHANGED <<store, bootStore, config, history, savedDishes, userProfile,
                   dishIngredients, queued, effects, uuid, pureVars, viewVars,
                   isApiModalOpen, issued>>

\* a save that stores the entry of the selected provider alone
newConfig_OnlyCurrent(cfg, form) ==
    [currentProviderId |-> form.currentProviderId,
     providers |-> (form.currentProviderId :>
                        [token |-> form.tempToken,
                         model |-> form.tempModel,
                         models |-> form.availableModels])]

\* the config handleSave builds
newConfig(cfg, form) ==
    [currentProviderId |-> form.currentProviderId,
     providers |-> (form.currentProviderId :>
                        [token |-> form.tempToken,
                         model |-> form.tempModel,
                         models |-> form.availableModels])
                   @@ (IF cfg # Null THEN cfg.providers ELSE <<>>)]

\* the button is disabled={!tempToken.trim() || !tempModel.trim() || isLoadingModels}
handleSave ==
    /\ isOpen
    /\ Trim(apiKeyManager.tempToken) # "" /\ Trim(apiKeyManager.tempModel) # ""
    /\ ~apiKeyManager.isLoadingModels
    /\ store' = setItem(store, "api-config",
                        JSONstringify(newConfig(config, apiKeyManager)))
    /\ config' = newConfig(config, apiKeyManager)
    /\ isApiModalOpen' = FALSE
    /\ op' = [name |-> "handleSave", providerId |-> apiKeyManager.currentProviderId]
    /\ UNCHANGED <<bootStore, history, savedDishes, userProfile,
                   dishIngredients, queued, effects, uuid, pureVars, viewVars, netVars,
                   apiKeyManager>>

\* the button is shown when config is set; the effect then resets the form again
handleClear ==
    /\ isOpen /\ config # Null
    /\ store' = removeItem(store, "api-config")
    /\ config' = Null
    /\ apiKeyManager' =
         formEffect([apiKeyManager EXCEPT !.tempToken = "", !.tempModel = "",
                                          !.availableModels = <<>>,
                                          !.error = Null,
                                          !.currentProviderId = DEFAULT_PROVIDER_ID],
                    TRUE, Null)
    /\ op' = [name |-> "handleClear"]
    /\ UNCHANGED <<bootStore, history, savedDishes, userProfile,
                   dishIngredients, queued, effects, uuid, pureVars, viewVars, netVars,
                   isApiModalOpen>>

\* the App after start-up, with no config or with a stored one
InitKeys ==
    /\ config \in {Null} \cup MultiConfigs
    /\ store = IF config = Null THEN EmptyStore
               ELSE setItem(EmptyStore, "api-config", JSONstringify(config))
    /\ bootStore = EmptyStore
    /\ history = EmptyHistory
    /\ savedDishes = <<>>
    /\ userProfile = Null
    /\ dishIngredients = <<>>
    /\ queued = NoUpdates
    /\ effects = <<>>
    /\ uuid = 0
    /\ op = [name |-> "render"]
    /\ InitOther

NextKeys ==
    \/ openApiModal
    \/ onClose
    \/ \E providerId \in ProviderIds : handleProviderChange(providerId)
    \/ \E value \in TokenInputs : setTempToken(value)
    \/ \E value \in {""} \cup ModelIds : setTempModel(value)
    \/ handleFetchModels
    \/ \E request \in inflight : \E response \in ModelsResponses(request) :
           fetchModelsSettled(request, response)
    \/ handleSave
    \/ handleClear

SpecKeys == InitKeys /\ [][NextKeys]_vars

\* ------------------------------------------------------- the AI operations
\* getCurrentProviderConfig: the entry of the current provider, with '' and
\* [] for what it lacks
getCurrentProviderConfig(cfg) ==
    LET providerId == cfg.currentProviderId
        hasEntry == providerId \in DOMAIN cfg.providers
    IN [token |-> IF hasEntry THEN fieldOr(cfg.providers[providerId], "token", "")
                              ELSE "",
        model |-> IF hasEntry THEN fieldOr(cfg.providers[providerId], "model", "")
                              ELSE "",
        baseUrl |-> getProviderBaseUrl(providerId),
        models |-> IF hasEntry THEN modelsOr(cfg.providers[providerId]) ELSE <<>>]

\* !token || !model
notConfigured(cfg) ==
    getCurrentProviderConfig(cfg).token = "" \/ getCurrentProviderConfig(cfg).model = ""

NotConfiguredError == Error(<<"Token ili model ne nastroeny">>)

\* the part of callAI before the await: it throws, or it calls fetch
callAIStart(cfg) ==
    IF notConfigured(cfg)
    THEN [kind |-> "throw", error |-> NotConfiguredError]
    ELSE [kind |-> "fetch",
          url |-> <<getCurrentProviderConfig(cfg).baseUrl, "/chat/completions">>,
          token |-> getCurrentProviderConfig(cfg).token,
          model |-> getCurrentProviderConfig(cfg).model]

\* the TypeError of data.choices[0] on a body that has no choices
TypeError == [js |-> "TypeError", message |-> <<"Cannot read properties of undefined">>]

\* the part of callAI after the await; the body of an ok response holds the
\* content of its first choice, or no choice.  The content is a string: the
\* JSON branch reads its text, the other branch returns it.
callAISettle(response, isJson) ==
    IF response.kind = "reject"
    THEN [kind |-> "throw", error |-> response.error]
    ELSE IF ~response.ok
    THEN [kind |-> "throw",
          error |-> Error(<<"HTTP ", response.status, ": ", response.statusText>>)]
    ELSE IF "content" \notin DOMAIN response.body
    THEN [kind |-> "throw", error |-> TypeError]
    ELSE IF isJson
    THEN extractJson(response.body.content)
    ELSE [kind |-> "return", value |-> Str(response.body.content)]

Return(value) == [kind |-> "return", value |-> value]

\* value > 0 on a number
greaterThanZero(value) == value.js = "number" /\ value.num > 0

\* 10^exp
RECURSIVE Pow10(_)
Pow10(exp) == IF exp = 0 THEN 1 ELSE 10 * Pow10(exp - 1)

\* Math.round on a number
jsMathRound(value) ==
    IF value.js = "number" THEN Num(MathRound(value.num, Pow10(value.exp)))
    ELSE NaN

\* fetchIngredientData before its await
fetchIngredientDataStart(ingredientName, cfg) ==
    IF notConfigured(cfg) THEN Return(Null) ELSE callAIStart(cfg)

\* fetchIngredientData after its await
fetchIngredientDataSettle(response) ==
    LET called == callAISettle(response, TRUE)
    IN IF called.kind = "throw" THEN Return(Null)
       ELSE LET data == called.value
                parsedData ==
                    [key \in NutrientFields |-> parseNutrientValue(getProp(data, key))]
            IN IF typeOf(data) # "object" \/ data = Null THEN Return(Null)
               ELSE IF greaterThanZero(parsedData.calories)
                       \/ greaterThanZero(parsedData.protein)
               THEN Return(Obj(parsedData))
               ELSE Return(Null)

\* analyzeTextWithAI before its await
analyzeTextWithAIStart(text, cfg) ==
    IF notConfigured(cfg) \/ text = "" THEN Return(Null) ELSE callAIStart(cfg)

\* analyzeTextWithAI after its await
analyzeTextWithAISettle(response) ==
    LET called == callAISettle(response, TRUE)
    IN IF called.kind = "throw" THEN Return(Null)
       ELSE Return(parseIngredients(called.value))

\* analyzeImageWithAI before the await of callAI; the file is read without
\* an error
analyzeImageWithAIStart(imageFile, userHint, cfg) ==
    IF notConfigured(cfg) THEN Return(Null) ELSE callAIStart(cfg)

\* analyzeImageWithAI after the await of callAI
analyzeImageWithAISettle(response) ==
    LET called == callAISettle(response, TRUE)
    IN IF called.kind = "throw" THEN Return(Null)
       ELSE Return(parseIngredients(called.value))

\* calculateDailyGoals before its await
calculateDailyGoalsStart(profile, cfg) ==
    IF notConfigured(cfg)
    THEN [kind |-> "throw", error |-> NotConfiguredError]
    ELSE callAIStart(cfg)

\* calculateDailyGoals after its await: data.bmr throws on null, and the
\* catch replaces every error
calculateDailyGoalsSettle(response) ==
    LET called == callAISettle(response, TRUE)
        failed == [kind |-> "throw",
                   error |-> Error(<<"Ne udalos rasschitat dnevnye normy. ",
                                     "Proverte podklyuchenie k AI.">>)]
    IN IF called.kind = "throw" THEN failed
       ELSE IF called.value = Null THEN failed
       ELSE Return(Obj([key \in GoalFields |->
                jsMathRound(parseNutrientValue(getProp(called.value, key)))]))

\* analyzeDailyIntake before its await
analyzeDailyIntakeStart(date, cfg) ==
    IF notConfigured(cfg)
    THEN [kind |-> "throw", error |-> NotConfiguredError]
    ELSE callAIStart(cfg)

\* analyzeDailyIntake after its await
analyzeDailyIntakeSettle(response) ==
    LET called == callAISettle(response, FALSE)
    IN IF called.kind = "throw"
       THEN [kind |-> "throw",
             error |-> Error(<<"Ne udalos proanalizirovat ratsion. ",
                               "Proverte podklyuchenie k AI.">>)]
       ELSE called

\* ------------------------------------------------ the callers of the AI
\* const isReady = !!config && !!config.providers[config.currentProviderId]
isReady == config # Null /\ config.currentProviderId \in DOMAIN config.providers

\* what the text fields are given, and the file of the file input
TextInputs == {"", "soup"}
QueryInputs == {"", "apple"}
Photo == [file |-> "photo.jpg"]

\* the contents a model answers with: an array of one ingredient, the same
\* array after a word of prose, and prose alone
MealContents ==
    LET item == <<LBrace, Key("name"), Str(<<"a">>), Comma, Key("calories"), Num(52),
                  Comma, Key("weight"), Norm(705, 1), RBrace>>
    IN { <<LBracket>> \o item \o <<RBracket>>,
         <<Prose, LBracket>> \o item \o <<RBracket>>,
         <<Prose>> }
IngredientContents ==
    { <<LBrace, Key("calories"), Num(52), Comma, Key("protein"), Str(<<"0", ",", "5">>),
        RBrace>>,
      <<LBrace, Key("calories"), Num(0), RBrace>>,
      <<Prose>> }
GoalContents ==
    { <<LBrace, Key("bmr"), Num(1650), Comma, Key("targetCalories"), Norm(18245, 1),
        RBrace>>,
      <<Null>> }
AnalysisContents == { <<Prose>>, <<Prose, Prose>> }

ContentsOf(resource) ==
    CASE resource = "mealAnalysis" -> MealContents
      [] resource = "ingredient" -> IngredientContents
      [] resource = "goals" -> GoalContents
      [] OTHER -> AnalysisContents

\* what the chat endpoint can answer to a request: no connection, an HTTP
\* error, a content, or a body without choices
AIResponses(request) ==
    Rejections \cup HttpErrors
    \cup { OkResponse([content |-> content]) : content \in ContentsOf(request.resource) }
    \cup { OkResponse([error |-> "no choices"]) }

\* the fetch a started operation has made, for the component instance that
\* is mounted now; subject is the text, the query or the date it is about
newRequest(resource, operation, subject, call) ==
    [id |-> issued + 1, resource |-> resource, operation |-> operation,
     subject |-> subject, url |-> call.url, token |-> call.token,
     model |-> call.model, mounted |-> TRUE]

\* the requests after the components of a view are unmounted: their
\* continuations still run, their setState calls do nothing
unmount(requests, resources) ==
    { IF request.resource \in resources
      THEN [request EXCEPT !.mounted = FALSE] ELSE request : request \in requests }

\* the three tab buttons of the navigation, shown when isReady
setActiveView(view) ==
    /\ isReady /\ view # activeView
    /\ activeView' = view
    /\ mealAnalyzer' = InitialMealAnalyzer
    /\ ingredientSearch' = InitialIngredientSearch
    /\ historyView' = InitialHistoryView
    /\ inflight' = unmount(inflight, IF activeView = "builder"
                                     THEN {"mealAnalysis", "ingredient"}
                                     ELSE IF activeView = "history"
                                     THEN {"dayAnalysis"} ELSE {})
    /\ op' = [name |-> "setActiveView"]
    /\ UNCHANGED <<store, bootStore, config, history, savedDishes, userProfile,
                   dishIngredients, queued, effects, uuid, pureVars, keyVars,
                   issued, userProfileModal>>

\* ----------------------------------------------------------- MealAnalyzer
\* the textarea, disabled={isLoading}
setText(value) ==
    /\ isReady /\ activeView = "builder"
    /\ ~mealAnalyzer.isLoading /\ mealAnalyzer.text # value
    /\ mealAnalyzer' = [mealAnalyzer EXCEPT !.text = value]
    /\ op' = [name |-> "setText"]
    /\ UNCHANGED <<store, bootStore, config, history, savedDishes, userProfile,
                   dishIngredients, queued, effects, uuid, pureVars, keyVars,
                   netVars, activeView, ingredientSearch, historyView,
                   userProfileModal>>

\* the file input, opened by a button that is disabled={isLoading}
handleImageChange ==
    /\ isReady /\ activeView = "builder"
    /\ ~mealAnalyzer.isLoading /\ mealAnalyzer.image = Null
    /\ mealAnalyzer' = [mealAnalyzer EXCEPT !.image = Photo, !.error = Null]
    /\ op' = [name |-> "handleImageChange"]
    /\ UNCHANGED <<store, bootStore, config, history, savedDishes, userProfile,
                   dishIngredients, queued, effects, uuid, pureVars, keyVars,
                   netVars, activeView, ingredientSearch, historyView,
                   userProfileModal>>

\* the button on the preview of the image
handleClearImage ==
    /\ isReady /\ activeView = "builder"
    /\ mealAnalyzer.image # Null
    /\ mealAnalyzer' = [mealAnalyzer EXCEPT !.image = Null]
    /\ op' = [name |-> "handleClearImage"]
    /\ UNCHANGED <<store, bootStore, config, history, savedDishes, userProfile,
                   dishIngredients, queued, effects, uuid, pureVars, keyVars,
                   netVars, activeView, ingredientSearch, historyView,
                   userProfileModal>>

NotRecognized == <<"Ne udalos raspoznat. Poprobuyte utochnit zapros ili zagruzit drugoe foto.">>

\* handleAnalyze up to its await; a call that returns at once is null, which
\* the else branch and the finally block handle
handleAnalyze ==
    /\ isReady /\ activeView = "builder"
    /\ ~(mealAnalyzer.isLoading
         \/ (mealAnalyzer.image = Null /\ Trim(mealAnalyzer.text) = ""))
    /\ issued < MaxRequests
    /\ LET operation == IF mealAnalyzer.image # Null THEN "analyzeImageWithAI"
                                                     ELSE "analyzeTextWithAI"
           call == IF mealAnalyzer.image # Null
                   THEN analyzeImageWithAIStart(mealAnalyzer.image.file,
                                                mealAnalyzer.text, config)
                   ELSE analyzeTextWithAIStart(mealAnalyzer.text, config)
       IN IF call.kind = "fetch"
          THEN /\ mealAnalyzer' = [mealAnalyzer EXCEPT !.isLoading = TRUE,
                                                       !.error = Null]
               /\ issued' = issued + 1
               /\ inflight' = inflight \cup
                     {newRequest("mealAnalysis", operation, mealAnalyzer.text, call)}
               /\ UNCHANGED pureVars
          ELSE /\ mealAnalyzer' = [mealAnalyzer EXCEPT !.isLoading = FALSE,
                                                       !.error = NotRecognized]
               /\ input' = [fn |-> operation, arg |-> mealAnalyzer.text]
               /\ output' = call
               /\ UNCHANGED netVars
    /\ op' = [name |-> "handleAnalyze"]
    /\ UNCHANGED <<store, bootStore, config, history, savedDishes, userProfile,
                   dishIngredients, queued, effects, uuid, keyVars,
                   activeView, ingredientSearch, historyView, userProfileModal>>

\* ing.field || 0 on a number
orZero(value) == IF ToBoolean(value) THEN value ELSE Num(0)

\* the ingredients handleAnalysisComplete of App appends to the draft
newIngredients(analyzedIngredients) ==
    [i \in 1..Len(analyzedIngredients) |->
        LET ing == analyzedIngredients[i]
            weight == jsMathRound(getProp(ing, "weight"))
        IN [id |-> uuid + i,
            name |-> getProp(ing, "name"),
            weight |-> IF ToBoolean(weight) THEN weight ELSE Num(100),
            baseCPFC |-> [key \in NutrientFields |-> orZero(getProp(ing, key))]]]

\* the rest of handleAnalyze, after the await
mealAnalysisSettled(request, response) ==
    /\ request \in inflight /\ request.resource = "mealAnalysis"
    /\ inflight' = inflight \ {request}
    /\ LET settled == IF request.operation = "analyzeImageWithAI"
                      THEN analyzeImageWithAISettle(response)
                      ELSE analyzeTextWithAISettle(response)
           result == settled.value
       IN /\ input' = [fn |-> request.operation, arg |-> request.subject]
          /\ output' = settled
          /\ IF result # Null /\ result.js = "array" /\ Len(result.items) > 0
             THEN /\ dishIngredients' = dishIngredients \o newIngredients(result.items)
                  /\ uuid' = uuid + Len(result.items)
                  /\ mealAnalyzer' =
                        IF request.mounted
                        THEN [mealAnalyzer EXCEPT !.text = "", !.image = Null,
                                                  !.isLoading = FALSE]
                        ELSE mealAnalyzer
             ELSE /\ mealAnalyzer' =
                        IF request.mounted
                        THEN [mealAnalyzer EXCEPT !.error = NotRecognized,
                                                  !.isLoading = FALSE]
                        ELSE mealAnalyzer
                  /\ UNCHANGED <<dishIngredients, uuid>>
    /\ op' = [name |-> "mealAnalysisSettled", request |-> request,
              response |-> response]
    /\ UNCHANGED <<store, bootStore, config, history, savedDishes, userProfile,
                   queued, effects, keyVars, issued,
                   activeView, ingredientSearch, historyView, userProfileModal>>

\* ------------------------------------------------------- IngredientSearch
\* the input, disabled={isLoading}
setQuery(value) ==
    /\ isReady /\ activeView = "builder"
    /\ ~ingredientSearch.isLoading /\ ingredientSearch.query # value
    /\ ingredientSearch' = [ingredientSearch EXCEPT !.query = value]
    /\ op' = [name |-> "setQuery"]
    /\ UNCHANGED <<store, bootStore, config, history, savedDishes, userProfile,
                   dishIngredients, queued, effects, uuid, pureVars, keyVars,
                   netVars, activeView, mealAnalyzer, historyView,
                   userProfileModal>>

NotFound(query) == <<"Ne udalos nayti dannye dlya ", query, ". Poprobuyte drugoy zapros.">>

\* handleSearch up to its await; the submit button is
\* disabled={isLoading || !query.trim()}
handleSearch ==
    /\ isReady /\ activeView = "builder"
    /\ ~ingredientSearch.isLoading /\ Trim(ingredientSearch.query) # ""
    /\ issued < MaxRequests
    /\ LET call == fetchIngredientDataStart(ingredientSearch.query, config)
       IN IF call.kind = "fetch"
          THEN /\ ingredientSearch' =
                     [ingredientSearch EXCEPT !.isLoading = TRUE, !.error = Null,
                                              !.result = Null]
               /\ issued' = issued + 1
               /\ inflight' = inflight \cup
                     {newRequest("ingredient", "fetchIngredientData",
                                 ingredientSearch.query, call)}
               /\ UNCHANGED pureVars
          ELSE /\ ingredientSearch' =
                     [ingredientSearch EXCEPT
                        !.isLoading = FALSE, !.result = Null,
                        !.error = NotFound(ingredientSearch.query)]
               /\ input' = [fn |-> "fetchIngredientData",
                            arg |-> ingredientSearch.query]
               /\ output' = call
               /\ UNCHANGED netVars
    /\ op' = [name |-> "handleSearch"]
    /\ UNCHANGED <<store, bootStore, config, history, savedDishes, userProfile,
                   dishIngredients, queued, effects, uuid, keyVars,
                   activeView, mealAnalyzer, historyView, userProfileModal>>

\* the rest of handleSearch, after the await; query is the one of the
\* render that started the search
ingredientSearchSettled(request, response) ==
    /\ request \in inflight /\ request.resource = "ingredient"
    /\ inflight' = inflight \ {request}
    /\ LET settled == fetchIngredientDataSettle(response)
           data == settled.value
       IN /\ input' = [fn |-> request.operation, arg |-> request.subject]
          /\ output' = settled
          /\ ingredientSearch' =
                IF ~request.mounted THEN ingredientSearch
                ELSE IF data # Null
                THEN [ingredientSearch EXCEPT
                        !.result = [name |-> request.subject, cpfc |-> data],
                        !.isLoading = FALSE]
                ELSE [ingredientSearch EXCEPT
                        !.error = NotFound(request.subject),
                        !.isLoading = FALSE]
    /\ op' = [name |-> "ingredientSearchSettled", request |-> request,
              response |-> response]
    /\ UNCHANGED <<store, bootStore, config, history, savedDishes, userProfile,
                   dishIngredients, queued, effects, uuid, keyVars, issued,
                   activeView, mealAnalyzer, historyView, userProfileModal>>

\* ------------------------------------------------------------ UserProfile
\* the decimal digits of a natural number
RECURSIVE digitsOf(_)
digitsOf(n) ==
    LET last == CHOOSE c \in Digits : DigitValue(c) = n % 10
    IN IF n < 10 THEN <<last>> ELSE Append(digitsOf(n \div 10), last)

\* value.toString() on an integer or on NaN
toString(value) ==
    IF value.js = "NaN" THEN Str(<<"N", "a", "N">>)
    ELSE IF value.num < 0 THEN Str(<<"-">> \o digitsOf(-value.num))
    ELSE Str(digitsOf(value.num))

\* handleCalculateGoals up to its await; the modal is open and its button
\* is disabled={isCalculating}
handleCalculateGoals ==
    /\ config # Null
    /\ ~userProfileModal.isCalculating
    /\ issued < MaxRequests
    /\ LET call == calculateDailyGoalsStart(userProfile, config)
       IN IF call.kind = "fetch"
          THEN /\ userProfileModal' =
                     [userProfileModal EXCEPT !.isCalculating = TRUE, !.error = Null]
               /\ issued' = issued + 1
               /\ inflight' = inflight \cup
                     {newRequest("goals", "calculateDailyGoals", "", call)}
               /\ UNCHANGED pureVars
          ELSE /\ userProfileModal' =
                     [userProfileModal EXCEPT !.isCalculating = FALSE,
                                              !.error = Str(call.error.message)]
               /\ input' = [fn |-> "calculateDailyGoals", arg |-> ""]
               /\ output' = call
               /\ UNCHANGED netVars
    /\ op' = [name |-> "handleCalculateGoals"]
    /\ UNCHANGED <<store, bootStore, config, history, savedDishes, userProfile,
                   dishIngredients, queued, effects, uuid, keyVars,
                   activeView, mealAnalyzer, ingredientSearch, historyView>>

\* the rest of handleCalculateGoals, after the await
calculateGoalsSettled(request, response) ==
    /\ request \in inflight /\ request.resource = "goals"
    /\ inflight' = inflight \ {request}
    /\ LET settled == calculateDailyGoalsSettle(response)
       IN /\ input' = [fn |-> request.operation, arg |-> request.subject]
          /\ output' = settled
          /\ userProfileModal' =
                IF settled.kind = "return"
                THEN [userProfileModal EXCEPT
                        !.dailyGoalsForm =
                            [key \in GoalFields |-> toString(settled.value.props[key])],
                        !.isCalculating = FALSE]
                ELSE [userProfileModal EXCEPT !.error = Str(settled.error.message),
                                              !.isCalculating = FALSE]
    /\ op' = [name |-> "calculateGoalsSettled", request |-> request,
              response |-> response]
    /\ UNCHANGED <<store, bootStore, config, history, savedDishes, userProfile,
                   dishIngredients, queued, effects, uuid, keyVars, issued,
                   activeView, mealAnalyzer, ingredientSearch, historyView>>

\* ------------------------------------------------------------ HistoryView
\* analyzingDate when it is a date and not null; the message of an error
\* is held as the string of its parts
Selected(date) == [date |-> date]

\* handleAnalyzeDay up to its await.  The button of a day has no disabled
\* attribute; the modal, shown while analyzingDate is set, covers the days.
handleAnalyzeDay(date) ==
    /\ isReady /\ activeView = "history"
    /\ date \in DOMAIN history
    /\ historyView.analyzingDate = Null
    /\ issued < MaxRequests
    /\ LET call == analyzeDailyIntakeStart(date, config)
           started == [historyView EXCEPT !.analyzingDate = Selected(date),
                                          !.analysisResult = Null,
                                          !.analysisError = Null]
       IN IF call.kind = "fetch"
          THEN /\ historyView' = [started EXCEPT !.isAnalyzing = TRUE]
               /\ issued' = issued + 1
               /\ inflight' = inflight \cup
                     {newRequest("dayAnalysis", "analyzeDailyIntake", date, call)}
               /\ UNCHANGED pureVars
          ELSE /\ historyView' = [started EXCEPT !.isAnalyzing = FALSE,
                                                 !.analysisError = Str(call.error.message)]
               /\ input' = [fn |-> "analyzeDailyIntake", arg |-> date]
               /\ output' = call
               /\ UNCHANGED netVars
    /\ op' = [name |-> "handleAnalyzeDay", date |-> date]
    /\ UNCHANGED <<store, bootStore, config, history, savedDishes, userProfile,
                   dishIngredients, queued, effects, uuid, keyVars,
                   activeView, mealAnalyzer, ingredientSearch, userProfileModal>>

\* the overlay and the close button of the modal
handleCloseAnalysis ==
    /\ isReady /\ activeView = "history"
    /\ historyView.analyzingDate # Null
    /\ historyView' = [historyView EXCEPT !.analyzingDate = Null,
                                          !.analysisResult = Null,
                                          !.analysisError = Null]
    /\ op' = [name |-> "handleCloseAnalysis"]
    /\ UNCHANGED <<store, bootStore, config, history, savedDishes, userProfile,
                   dishIngredients, queued, effects, uuid, pureVars, keyVars,
                   netVars, activeView, mealAnalyzer, ingredientSearch,
                   userProfileModal>>

\* a view that drops the answer of a request the modal no longer shows
applyAnalysis_IfCurrent(view, request, settled) ==
    IF view.analyzingDate # Selected(request.subject) THEN view
    ELSE IF settled.kind = "return"
    THEN [view EXCEPT !.analysisResult = settled.value, !.isAnalyzing = FALSE]
    ELSE [view EXCEPT !.analysisError = Str(settled.error.message),
                      !.isAnalyzing = FALSE]

\* what the try, catch and finally blocks of handleAnalyzeDay set after the
\* await
applyAnalysis(view, request, settled) ==
    IF settled.kind = "return"
    THEN [view EXCEPT !.analysisResult = settled.value, !.isAnalyzing = FALSE]
    ELSE [view EXCEPT !.analysisError = Str(settled.error.message),
                      !.isAnalyzing = FALSE]

\* the rest of handleAnalyzeDay, after the await
dayAnalysisSettled(request, response) ==
    /\ request \in inflight /\ request.resource = "dayAnalysis"
    /\ inflight' = inflight \ {request}
    /\ LET settled == analyzeDailyIntakeSettle(response)
       IN /\ input' = [fn |-> request.operation, arg |-> request.subject]
          /\ output' = settled
          /\ historyView' = IF request.mounted
                            THEN applyAnalysis(historyView, request, settled)
                            ELSE historyView
    /\ op' = [name |-> "dayAnalysisSettled", request |-> request,
              response |-> response]
    /\ UNCHANGED <<store, bootStore, config, history, savedDishes, userProfile,
                   dishIngredients, queued, effects, uuid, keyVars, issued,
                   activeView, mealAnalyzer, ingredientSearch, userProfileModal>>

\* ------------------------------------------------------------- the session
\* the configs the load effect can hand to the App: it takes the stored
\* object as it is, so an entry can lack its token or its model, and the
\* current provider can lack its entry
AIConfigs ==
    MultiConfigs
    \cup { [currentProviderId |-> "openai",
            providers |-> ("openai" :> [token |-> "", model |-> "gpt", models |-> <<>>])],
           [currentProviderId |-> "openai",
            providers |-> ("openai" :> [token |-> "sk-2", model |-> "", models |-> <<>>])],
           [currentProviderId |-> "openai",
            providers |-> ("openrouter" :> [token |-> "sk-1", model |-> "llama",
                                            models |-> <<>>])] }

\* the App after start-up, with a stored config and a stored history
InitAI ==
    /\ config \in AIConfigs
    /\ store = mkStore(JSONstringify(config), JSONstringify(MixedHistory), Null, Null)
    /\ bootStore = EmptyStore
    /\ history = MixedHistory
    /\ savedDishes = <<>>
    /\ userProfile = Null
    /\ dishIngredients = <<>>
    /\ queued = NoUpdates
    /\ effects = <<>>
    /\ uuid = 0
    /\ op = [name |-> "render"]
    /\ InitOther

NextAI ==
    \/ \E view \in {"builder", "history", "dishes"} : setActiveView(view)
    \/ \E value \in TextInputs : setText(value)
    \/ handleImageChange
    \/ handleClearImage
    \/ handleAnalyze
    \/ \E request \in inflight : \E response \in AIResponses(request) :
           mealAnalysisSettled(request, response)
    \/ \E value \in QueryInputs : setQuery(value)
    \/ handleSearch
    \/ \E request \in inflight : \E response \in AIResponses(request) :
           ingredientSearchSettled(request, response)
    \/ handleCalculateGoals
    \/ \E request \in inflight : \E response \in AIResponses(request) :
           calculateGoalsSettled(request, response)
    \/ \E date \in Dates : handleAnalyzeDay(date)
    \/ handleCloseAnalysis
    \/ \E request \in inflight : \E response \in AIResponses(request) :
           dayAnalysisSettled(request, response)

SpecAI == InitAI /\ [][NextAI]_vars

\* the session of a user who stays with the tabs and the history: no other
\* handler reads or writes what HistoryView holds
NextHistoryView ==
    \/ \E view \in {"builder", "history", "dishes"} : setActiveView(view)
    \/ \E date \in Dates : handleAnalyzeDay(date)
    \/ handleCloseAnalysis
    \/ \E request \in inflight : \E response \in AIResponses(request) :
           dayAnalysisSettled(request, response)

SpecHistoryView == InitAI /\ [][NextHistoryView]_vars

\* ------------------------------------------------ calls of pure functions
\* stored configs of the old shape, with blank and non-blank fields, with and
\* without a models list
LegacyShapes ==
    LET Model1 == [id |-> "gpt", name |-> "GPT"]
    IN { [token |-> t, model |-> m] : t \in {"", "sk-1"}, m \in {"", "gpt"} }
       \cup { [token |-> t, model |-> m, models |-> ms] :
                t \in {"", "sk-1"}, m \in {"", "gpt"},
                ms \in {<<>>, <<Model1>>} }

\* stored configs of the multi-provider shape
MultiShapes ==
    MultiConfigs
    \cup { [currentProviderId |-> "openai", providers |-> <<>>],
           [currentProviderId |-> "openrouter",
            providers |-> ("openrouter" :> [token |-> "sk-1", model |-> "gpt",
                                            models |-> <<>>]
                           @@ "openai" :> [token |-> "sk-2", model |-> "gpt",
                                           models |-> <<>>])] }

\* the strings of at most n characters
Chars == {"0", "1", "5", ",", ".", "-", "a"}
Strings(n) == UNION { [1..k -> Chars] : k \in 0..n }

\* values an AI response can hold where a nutrient is expected, with NaN,
\* which a caller can pass though no JSON text holds it
NutrientInputs ==
    { Num(0), Num(5), Norm(125, 1), Num(-5), NaN, Null, Undefined,
      Obj(<<>>), Arr(<<>>) }
    \cup { Str(chars) : chars \in Strings(MaxLen) }

\* elements an AI response can hold where an ingredient is expected
ItemPool ==
    { Null, Num(5), Str(<<"a">>), Arr(<<>>),
      Obj("calories" :> Num(5)),
      Obj("name" :> Str(<<>>) @@ "calories" :> Num(5)),
      Obj("name" :> Null @@ "weight" :> Num(5)),
      Obj("name" :> Str(<<"a">>) @@ "calories" :> Num(165) @@ "protein" :> Num(31)
          @@ "fat" :> Norm(36, 1) @@ "carbohydrate" :> Num(0) @@ "fiber" :> Num(0)
          @@ "weight" :> Num(80)),
      Obj("name" :> Str(<<"b">>) @@ "calories" :> Str(<<"1", ",", "5">>)
          @@ "protein" :> Null @@ "brand" :> Str(<<"x">>)),
      Obj("name" :> Str(<<"c">>) @@ "calories" :> Num(15) @@ "protein" :> Num(-5)
          @@ "weight" :> Num(0)),
      Obj("name" :> Str(<<"d">>) @@ "weight" :> Str(<<"a">>)) }

IngredientInputs ==
    { Null, Undefined, Num(5), Str(<<"a">>),
      Obj("name" :> Str(<<"a">>) @@ "calories" :> Num(5)) }
    \cup { Arr(items) : items \in UNION { [1..k -> ItemPool] : k \in 0..MaxItems } }

\* the texts of at most n tokens
TextTokens == {LBrace, RBrace, LBracket, RBracket, Key("a"), Num(1), Prose}
Texts(n) == UNION { [1..k -> TextTokens] : k \in 0..n }

\* answers to an analysis: an array of one or of two ingredients (one of
\* them has no name), as it is, after or before a word of prose, and between
\* code fences
AnswerContents ==
    LET item1 == <<LBrace, Key("name"), Str(<<"a">>), Comma, Key("calories"), Num(52),
                   RBrace>>
        item2 == <<LBrace, Key("name"), Str(<<"b">>), Comma, Key("weight"), Num(70),
                   RBrace>>
        item3 == <<LBrace, Key("calories"), Num(15), RBrace>>
        arrays == { <<LBracket>> \o item1 \o <<RBracket>>,
                    <<LBracket>> \o item1 \o <<Comma>> \o item2 \o <<RBracket>>,
                    <<LBracket>> \o item3 \o <<RBracket>> }
    IN arrays
       \cup { <<Prose>> \o array : array \in arrays }
       \cup { array \o <<Prose>> : array \in arrays }
       \cup { <<Fence>> \o array \o <<Fence>> : array \in arrays }

\* ingredients for the calculations: products that are half-way and not,
\* and a weight of 0
Yogurt == [id |-> "i4", name |-> "yogurt", weight |-> 70,
           baseCPFC |-> [calories |-> 2, protein |-> 5, fat |-> 1,
                         carbohydrate |-> 6, fiber |-> 0]]
Melon == [id |-> "i5", name |-> "melon", weight |-> 58,
          baseCPFC |-> [calories |-> 25, protein |-> 1, fat |-> 0,
                        carbohydrate |-> 6, fiber |-> 1]]
Garnish == [id |-> "i6", name |-> "garnish", weight |-> 0,
            baseCPFC |-> [calories |-> 100, protein |-> 2, fat |-> 0,
                          carbohydrate |-> 20, fiber |-> 3]]
CalculationPool == {Chicken, Cucumber, Yogurt, Melon, Garnish}
IngredientLists == UNION { [1..k -> CalculationPool] : k \in 0..MaxItems }

\* ------------------------------------------------------------ the export
\* getMealTypeLabel: labels[type] || type (the labels are Russian words)
getMealTypeLabel(type) ==
    CASE type = "breakfast" -> "Zavtrak"
      [] type = "lunch" -> "Obed"
      [] type = "dinner" -> "Uzhin"
      [] type = "snack" -> "Perekus"
      [] OTHER -> type

\* a row that gives the calories of 100 g instead of those of the weight
exportRow_Per100g(date, meal, ing) ==
    [date |-> date,
     mealType |-> getMealTypeLabel(meal.type),
     ingredientName |-> ing.name,
     weight |-> ing.weight,
     calories |-> ing.baseCPFC.calories,
     protein |-> MathRound(ing.baseCPFC.protein * ing.weight, 10),
     fat |-> MathRound(ing.baseCPFC.fat * ing.weight, 10),
     carbohydrate |-> MathRound(ing.baseCPFC.carbohydrate * ing.weight, 10),
     fiber |-> MathRound(ing.baseCPFC.fiber * ing.weight, 10)]

\* the row of an ingredient: calories in kcal, the others in tenths of a gram,
\* as toFixed(1) leaves them
exportRow(date, meal, ing) ==
    [date |-> date,
     mealType |-> getMealTypeLabel(meal.type),
     ingredientName |-> ing.name,
     weight |-> ing.weight,
     calories |-> roundProduct(ing.baseCPFC.calories, ing.weight),
     protein |-> MathRound(ing.baseCPFC.protein * ing.weight, 10),
     fat |-> MathRound(ing.baseCPFC.fat * ing.weight, 10),
     carbohydrate |-> MathRound(ing.baseCPFC.carbohydrate * ing.weight, 10),
     fiber |-> MathRound(ing.baseCPFC.fiber * ing.weight, 10)]

\* the rows of the meals of a date, in the order of the meals
RECURSIVE dayRows(_, _)
dayRows(date, meals) ==
    IF meals = <<>> THEN <<>>
    ELSE [i \in 1..Len(Head(meals).ingredients) |->
             exportRow(date, Head(meals), Head(meals).ingredients[i])]
         \o dayRows(date, Tail(meals))

\* the place of a date among the dates: ISO dates compare as their texts do
dateRank(date) == IF date = "2024-05-01" THEN 1 ELSE 2

\* neither date < startDate nor date > endDate, for the bounds that are given
inRange(date, startDate, endDate) ==
    /\ ~(startDate # Undefined /\ dateRank(date) < dateRank(startDate.date))
    /\ ~(endDate # Undefined /\ dateRank(date) > dateRank(endDate.date))

\* the rows of the dates of the range from the given rank down: the sort is
\* stable and by date only, latest first, so the rows of a date stay together
\* and in their order
RECURSIVE rowsFrom(_, _, _, _)
rowsFrom(h, startDate, endDate, rank) ==
    IF rank = 0 THEN <<>>
    ELSE LET here == {d \in DOMAIN h : dateRank(d) = rank /\ inRange(d, startDate, endDate)}
         IN (IF here = {} THEN <<>>
             ELSE LET date == CHOOSE d \in here : TRUE
                  IN dayRows(date, h[date].meals))
            \o rowsFrom(h, startDate, endDate, rank - 1)

prepareExportData(h, startDate, endDate) ==
    rowsFrom(h, startDate, endDate, Cardinality(Dates))

\* histories to export: none, the stored ones, a day of two meals, and a day
\* of one meal of every list of ingredients
ExportHistories ==
    { EmptyHistory, OldHistory, MixedHistory, EditedHistory,
      "2024-05-02" :> OldEntry(<<StoredMeal1, StoredMeal2>>) }
    \cup { "2024-05-01" :> OldEntry(<<[id |-> 1, type |-> "lunch", ingredients |-> list]>>) :
             list \in IngredientLists \ { <<>> } }
ExportBounds == { Undefined } \cup { Selected(date) : date \in Dates }

\* ---------------------------------------------- a meal recorded and removed
\* the profiles and, for each, histories as the ledger keeps them under that
\* profile (none, one date, two dates and two meals), and histories it does
\* not keep: edited totals, percentages of other goals, a date with no meal
LedgerProfiles == {Null, StoredProfile, StoredGoalProfile}
entryUnder(profile, meals) ==
    IF Truthy(dailyGoalsOf(profile))
    THEN GoalEntry(meals, dailyGoalsOf(profile))
    ELSE OldEntry(meals)
EmptyDayHistory == "2024-05-01" :> [meals |-> <<>>, dailyTotals |-> ZeroTotals]
HistoriesUnder(profile) ==
    { EmptyHistory,
      "2024-05-01" :> entryUnder(profile, <<StoredMeal1>>),
      ("2024-05-01" :> entryUnder(profile, <<StoredMeal1, StoredMeal2>>))
        @@ ("2024-05-02" :> entryUnder(profile, <<StoredMeal2>>)),
      EditedHistory, MixedHistory, EmptyDayHistory }
RecordedMeals ==
    { [history |-> h, today |-> today, mealId |-> 1, mealType |-> "lunch",
       ingredients |-> list, profile |-> profile] :
         h \in UNION { HistoriesUnder(p) : p \in LedgerProfiles },
         today \in Dates, list \in IngredientLists \ { <<>> },
         profile \in LedgerProfiles }

\* totals and goals for the percentages: a goal of 0, a negative goal, no
\* goals, and a day of 1150 kcal
Rice == [id |-> "i7", name |-> "rice", weight |-> 500,
         baseCPFC |-> [calories |-> 230, protein |-> 5, fat |-> 1,
                       carbohydrate |-> 50, fiber |-> 2]]
GoalsOdd == [bmr |-> 1600, tdee |-> 2200, targetCalories |-> 0,
             protein |-> -10, fat |-> 1, carbohydrate |-> 0, fiber |-> 7]
ProgressTotals == { calculateTotals(list) : list \in IngredientLists \cup { <<Rice>> } }
ProgressGoals == GoalsSet \cup {GoalsOdd, Null, Undefined}

PureCalls ==
    { [fn |-> "migrateLegacy", arg |-> c] : c \in LegacyShapes \cup MultiShapes }
    \cup { [fn |-> "parseNutrientValue", arg |-> v] : v \in NutrientInputs }
    \cup { [fn |-> "parseIngredients", arg |-> v] : v \in IngredientInputs }
    \cup { [fn |-> "extractJson", arg |-> text] : text \in Texts(MaxText) }
    \cup { [fn |-> "analyzeTextWithAISettle", arg |-> content] :
             content \in AnswerContents }
    \cup { [fn |-> "calculateTotals", arg |-> list] : list \in IngredientLists }
    \cup { [fn |-> "calculatePer100g", arg |-> list] : list \in IngredientLists }
    \cup { [fn |-> "recordThenRemove", arg |-> meal] : meal \in RecordedMeals }
    \cup { [fn |-> "prepareExportData",
            arg |-> [history |-> h, startDate |-> startDate, endDate |-> endDate]] :
             h \in ExportHistories, startDate \in ExportBounds, endDate \in ExportBounds }
    \cup { [fn |-> "calculateProgressPercentages",
            arg |-> [dailyTotals |-> totals, dailyGoals |-> goals]] :
             totals \in ProgressTotals, goals \in ProgressGoals }

InitPure ==
    /\ store = EmptyStore
    /\ InitLedger
    /\ InitKeyVars
    /\ InitNetVars
    /\ InitViewVars
    /\ input \in PureCalls
    /\ output = Pending

CallMigrateLegacy ==
    /\ input.fn = "migrateLegacy" /\ output = Pending
    /\ output' = migrateLegacy(input.arg)
    /\ UNCHANGED <<input, ledgerVars, keyVars, netVars, viewVars>>

CallParseNutrientValue ==
    /\ input.fn = "parseNutrientValue" /\ output = Pending
    /\ output' = parseNutrientValue(input.arg)
    /\ UNCHANGED <<input, ledgerVars, keyVars, netVars, viewVars>>

CallParseIngredients ==
    /\ input.fn = "parseIngredients" /\ output = Pending
    /\ output' = parseIngredients(input.arg)
    /\ UNCHANGED <<input, ledgerVars, keyVars, netVars, viewVars>>

CallExtractJson ==
    /\ input.fn = "extractJson" /\ output = Pending
    /\ output' = extractJson(input.arg)
    /\ UNCHANGED <<input, ledgerVars, keyVars, netVars, viewVars>>

\* analyzeTextWithAI from the answer on; analyzeImageWithAI has the same lines
CallAnalyzeTextWithAISettle ==
    /\ input.fn = "analyzeTextWithAISettle" /\ output = Pending
    /\ output' = analyzeTextWithAISettle(OkResponse([content |-> input.arg]))
    /\ UNCHANGED <<input, ledgerVars, keyVars, netVars, viewVars>>

CallCalculateTotals ==
    /\ input.fn = "calculateTotals" /\ output = Pending
    /\ output' = calculateTotals(input.arg)
    /\ UNCHANGED <<input, ledgerVars, keyVars, netVars, viewVars>>

CallCalculatePer100g ==
    /\ input.fn = "calculatePer100g" /\ output = Pending
    /\ output' = calculatePer100g(input.arg)
    /\ UNCHANGED <<input, ledgerVars, keyVars, netVars, viewVars>>

\* the updater of handleSaveDish on the history of the call
CallSaveDishUpdater ==
    /\ input.fn = "recordThenRemove" /\ output = Pending
    /\ output' = [recorded |-> saveDishUpdater(input.arg.history, input.arg.today,
                                               input.arg.mealId, input.arg.mealType,
                                               input.arg.ingredients, input.arg.profile)]
    /\ UNCHANGED <<input, ledgerVars, keyVars, netVars, viewVars>>

\* the updater of handleRemoveMeal on the history the meal was recorded in
CallRemoveMealUpdater ==
    /\ input.fn = "recordThenRemove" /\ "recorded" \in DOMAIN output
    /\ output' = [removed |-> removeMealUpdater(output.recorded, input.arg.today,
                                                input.arg.mealId, input.arg.profile)]
    /\ UNCHANGED <<input, ledgerVars, keyVars, netVars, viewVars>>

CallPrepareExportData ==
    /\ input.fn = "prepareExportData" /\ output = Pending
    /\ output' = Arr(prepareExportData(input.arg.history, input.arg.startDate,
                                       input.arg.endDate))
    /\ UNCHANGED <<input, ledgerVars, keyVars, netVars, viewVars>>

CallCalculateProgressPercentages ==
    /\ input.fn = "calculateProgressPercentages" /\ output = Pending
    /\ output' = calculateProgressPercentages(input.arg.dailyTotals,
                                              input.arg.dailyGoals)
    /\ UNCHANGED <<input, ledgerVars, keyVars, netVars, viewVars>>

NextPure ==
    \/ CallAnalyzeTextWithAISettle
    \/ CallCalculateTotals
    \/ CallCalculatePer100g
    \/ CallCalculateProgressPercentages
    \/ CallPrepareExportData
    \/ CallSaveDishUpdater
    \/ CallRemoveMealUpdater
    \/ CallMigrateLegacy
    \/ CallParseNutrientValue
    \/ CallParseIngredients
    \/ CallExtractJson

SpecPure == InitPure /\ [][NextPure]_vars

\* ------------------------------------------------------------- properties
\* While a handler's persist effect is still due, the store holds the history
\* the handler started from.
PersistedHistory ==
    IF "meal-history" \in DOMAIN store /\ ~parseThrows(store["meal-history"])
    THEN JSONparse(store["meal-history"])
    ELSE EmptyHistory

\* all ingredients of all meals of a date, in meal order
IngredientsOf(h, d) == flatMapIngredients(h[d].meals)

\* two DayEntries show the same meals, totals and progress
SameEntry(a, b) ==
    /\ a.meals = b.meals
    /\ a.dailyTotals = b.dailyTotals
    /\ Get(a, "progressPercentages") = Get(b, "progressPercentages")

\* the step is a call of the named handler
IsCall(name) == Idle /\ op'.name = name /\ effects' # <<>>

\* C1: from an empty history, after any sequence of recordMeal, removeMeal and
\* clearDay, the dailyTotals of every date are calculateTotals of all the
\* ingredients of all the meals of that date.
C1_DailyTotalsInvariant ==
    \A d \in DOMAIN history :
        history[d].dailyTotals = calculateTotals(IngredientsOf(history, d))

\* a meal was removed from a date that keeps another meal
C1_Witness ==
    /\ op.name = "removeMeal"
    /\ effects = <<"persist">>
    /\ op.date \in DOMAIN history
    /\ op.date \in DOMAIN PersistedHistory
    /\ Len(PersistedHistory[op.date].meals) = 2
    /\ Len(history[op.date].meals) = 1

\* C2: once the effects of an operation have run, every DayEntry has
\* progressPercentages equal to calculateProgressPercentages(dailyTotals,
\* current goals) when the profile has goals, and has none otherwise.
C2_ProgressFollowsCurrentGoals ==
    Idle =>
        \A d \in DOMAIN history :
            LET goals == dailyGoalsOf(userProfile)
                progress == Get(history[d], "progressPercentages")
            IN IF Truthy(goals)
               THEN progress = calculateProgressPercentages(history[d].dailyTotals, goals)
               ELSE ~Truthy(progress)

\* C3: from an empty history no date ever maps to a DayEntry without meals,
\* and removing the only meal of a date removes the date.
C3_NoEmptyDay ==
    [][ /\ \A d \in DOMAIN history' : Len(history'[d].meals) > 0
        /\ (/\ IsCall("removeMeal")
            /\ op'.date \in DOMAIN history
            /\ mealKeys(history[op'.date].meals) = {op'.mealId})
           => op'.date \notin DOMAIN history' ]_vars

\* the only meal of a date was removed and the date is gone
C3_Witness ==
    /\ op.name = "removeMeal"
    /\ effects = <<"persist">>
    /\ op.date \in DOMAIN PersistedHistory
    /\ mealKeys(PersistedHistory[op.date].meals) = {op.mealId}
    /\ op.date \notin DOMAIN history

\* C4: recordMeal on any prior history creates the date if absent, appends
\* exactly one meal under an id the date did not have, keeps the meals the
\* date had, and leaves dailyTotals equal to the totals of all the ingredients
\* of the date.
C4_RecordMeal ==
    [][ IsCall("saveDish") =>
          LET today == op'.date
              before == IF today \in DOMAIN history THEN history[today].meals ELSE <<>>
          IN /\ today \in DOMAIN history'
             /\ op'.mealId \notin mealKeys(before)
             /\ Len(history'[today].meals) = Len(before) + 1
             /\ \A i \in 1..Len(before) : history'[today].meals[i] = before[i]
             /\ history'[today].meals[Len(before) + 1].id = op'.mealId
             /\ history'[today].meals[Len(before) + 1].ingredients = dishIngredients
             /\ history'[today].dailyTotals
                  = calculateTotals(flatMapIngredients(before) \o dishIngredients) ]_vars

\* a meal was recorded on a date whose stored totals did not match its meals
C4_Witness ==
    /\ op.name = "saveDish"
    /\ effects = <<"persist">>
    /\ op.date \in DOMAIN PersistedHistory
    /\ PersistedHistory[op.date].dailyTotals
         # calculateTotals(IngredientsOf(PersistedHistory, op.date))
    /\ Len(history[op.date].meals) = Len(PersistedHistory[op.date].meals) + 1

\* C5: removeMeal and clearDay leave every other date as it was; clearDay
\* deletes the date; removeMeal keeps the remaining meals of a date that still
\* has some and recomputes its totals and progress from them; on a date that is
\* not in the history either leaves the history as it was.
C5_RemoveAndClearFrame ==
    [][ (IsCall("removeMeal") \/ IsCall("clearDay")) =>
          LET date == op'.date
          IN /\ \A d \in Dates \ {date} :
                   /\ d \in DOMAIN history' <=> d \in DOMAIN history
                   /\ d \in DOMAIN history => SameEntry(history'[d], history[d])
             /\ date \notin DOMAIN history => date \notin DOMAIN history'
             /\ op'.name = "clearDay" => date \notin DOMAIN history'
             /\ (op'.name = "removeMeal" /\ date \in DOMAIN history) =>
                   LET remaining == SelectSeq(history[date].meals,
                                              LAMBDA m : m.id # op'.mealId)
                       totals == calculateTotals(flatMapIngredients(remaining))
                       progress == calculateProgressPercentages(
                                       totals, orNull(dailyGoalsOf(userProfile)))
                   IN IF remaining = <<>> THEN date \notin DOMAIN history'
                      ELSE /\ date \in DOMAIN history'
                           /\ history'[date].meals = remaining
                           /\ history'[date].dailyTotals = totals
                           /\ Get(history'[date], "progressPercentages")
                                = orUndefined(progress) ]_vars

\* a day was cleared while another date, which has progress, stayed
C5_Witness ==
    /\ op.name = "clearDay"
    /\ effects = <<"persist">>
    /\ op.date \in DOMAIN PersistedHistory
    /\ Len(PersistedHistory[op.date].meals) = 2
    /\ op.date \notin DOMAIN history
    /\ \E d \in DOMAIN history : Truthy(Get(history[d], "progressPercentages"))

\* C6: the goal migration is idempotent: for every history and all goals,
\* migrating the migrated history gives the migrated history.
C6_MigrationIdempotent ==
    \A g \in GoalsSet :
        migrateOnLoad(migrateOnLoad(history, g), g) = migrateOnLoad(history, g)

\* the migration effect has just filled in the progress of two dates
C6_Witness ==
    /\ op.name = "migrate"
    /\ effects = <<"persist">>
    /\ Cardinality(DOMAIN history) = 2
    /\ DOMAIN PersistedHistory = DOMAIN history
    /\ \A d \in DOMAIN history :
          /\ ~Truthy(Get(PersistedHistory[d], "progressPercentages"))
          /\ Truthy(Get(history[d], "progressPercentages"))

\* the step is a run of the goal migration effect
IsMigration == effects # <<>> /\ Head(effects) = "migrate" /\ op'.name = "migrate"

\* C7: the goal migration leaves the meals and the dailyTotals of every entry
\* as they were, leaves every entry that has progressPercentages as it was,
\* and gives the others progressPercentages computed from their dailyTotals.
C7_MigrationOnlyAddsMissing ==
    [][ IsMigration =>
          \A d \in DOMAIN history :
              LET goals == dailyGoalsOf(userProfile)
                  old == Get(history[d], "progressPercentages")
              IN /\ d \in DOMAIN history'
                 /\ history'[d].meals = history[d].meals
                 /\ history'[d].dailyTotals = history[d].dailyTotals
                 /\ Truthy(old) => Get(history'[d], "progressPercentages") = old
                 /\ (~Truthy(old) /\ Truthy(goals)) =>
                       Get(history'[d], "progressPercentages")
                         = calculateProgressPercentages(history[d].dailyTotals, goals) ]_vars

\* C8: once the effects of a ledger mutation have run, the store has the key
\* meal-history exactly when the history has a date, and then its value is
\* the serialization of the history.
C8_StoreFollowsHistory ==
    Idle =>
        /\ "meal-history" \in DOMAIN store <=> DOMAIN history # {}
        /\ DOMAIN history # {} =>
              /\ ~parseThrows(store["meal-history"])
              /\ \A d \in DOMAIN history :
                    /\ d \in DOMAIN JSONparse(store["meal-history"])
                    /\ SameEntry(JSONparse(store["meal-history"])[d], history[d])
              /\ DOMAIN JSONparse(store["meal-history"]) = DOMAIN history

\* a history that held a meal has become empty and its key is gone
C8_Witness ==
    /\ Idle
    /\ op.name = "persist"
    /\ uuid > 0
    /\ DOMAIN history = {}
    /\ "meal-history" \notin DOMAIN store

StorageKeys == {"api-config", "meal-history", "saved-dishes", "user-profile"}

\* C9: after the load effect, every key whose stored text did not parse is
\* gone from the store and the value loaded for it is the one of an absent key.
C9_CorruptKeysDiscarded ==
    op.name = "load" =>
        \A key \in StorageKeys :
            (key \in DOMAIN bootStore /\ bootStore[key] = CorruptString) =>
                /\ key \notin DOMAIN store
                /\ key = "api-config" => ~queued.config.set
                /\ key = "meal-history" => ~queued.history.set
                /\ key = "saved-dishes" => queued.savedDishes = <<>>
                /\ key = "user-profile" => queued.userProfile = Null

\* the load effect has run and its updates are rendered; the user has not acted
StartedUp == op.name \in {"render", "persist", "migrate"} /\ queued = NoUpdates

C11_LegacyMigrationIdempotent ==
    (input.fn = "migrateLegacy" /\ output # Pending) =>
        /\ output = migrateLegacy(input.arg)
        /\ migrateLegacy(output) = output

\* a legacy config that lists its models has been migrated
C11_Witness ==
    /\ input.fn = "migrateLegacy"
    /\ output # Pending
    /\ isLegacyConfig(input.arg)
    /\ "models" \in DOMAIN input.arg /\ input.arg.models # <<>>
    /\ output # input.arg

\* C12.  In ApiKeyManager, as long as the config is not cleared, a step leaves
\* every provider entry of the config with its token and model, except the
\* entry of the provider a save is made for; the stored api-config is the
\* config with all its entries.
C12_ProviderEntriesPreserved ==
    [][(config # Null /\ op'.name # "handleClear") =>
          /\ config' # Null
          /\ getItem(store', "api-config") = JSONstringify(config')
          /\ \A p \in DOMAIN config.providers :
                \/ /\ p \in DOMAIN config'.providers
                   /\ config'.providers[p].token = config.providers[p].token
                   /\ config'.providers[p].model = config.providers[p].model
                \/ /\ op'.name = "handleSave"
                   /\ op'.providerId = p]_vars

\* a save has just been made for one provider while the config holds the
\* entries saved earlier for two others
C12_Witness ==
    /\ op.name = "handleSave"
    /\ config # Null
    /\ DOMAIN config.providers = ProviderIds
    /\ config.currentProviderId = op.providerId
    /\ \A p \in ProviderIds \ {op.providerId} :
           config.providers[p].token # config.providers[op.providerId].token

\* a decimal numeral: an optional minus, digits, and optionally a comma or a
\* dot followed by digits
AllDigits(chars) == \A i \in 1..Len(chars) : chars[i] \in Digits
Unsigned(chars) ==
    IF chars # <<>> /\ Head(chars) = "-" THEN Tail(chars) ELSE chars
IsDecimal(chars) ==
    LET u == Unsigned(chars)
    IN /\ u # <<>>
       /\ \/ AllDigits(u)
          \/ \E k \in 2..(Len(u) - 1) :
                /\ u[k] \in {",", "."}
                /\ AllDigits(SubSeq(u, 1, k - 1))
                /\ AllDigits(SubSeq(u, k + 1, Len(u)))

\* the number a decimal numeral denotes: every digit times its place
RECURSIVE PlaceSum(_, _)
PlaceSum(digits, i) ==
    IF i > Len(digits) THEN 0
    ELSE DigitValue(digits[i]) * 10 ^ (Len(digits) - i) + PlaceSum(digits, i + 1)
IsDigit(c) == c \in Digits
DecimalValue(chars) ==
    LET u == Unsigned(chars)
        magnitude == PlaceSum(SelectSeq(u, IsDigit), 1)
        places == IF AllDigits(u) THEN 0
                  ELSE Len(u) - (CHOOSE k \in 1..Len(u) : u[k] \in {",", "."})
    IN Norm(IF u # chars THEN -magnitude ELSE magnitude, places)

\* no prefix of the string is a numeral, with or without digits before the
\* separator
HasNumeralPrefix(chars) ==
    \E k \in 1..Len(chars) :
        LET u == Unsigned(SubSeq(chars, 1, k))
        IN \/ IsDecimal(SubSeq(chars, 1, k))
           \/ /\ Len(u) >= 2 /\ u[1] \in {",", "."}
              /\ AllDigits(Tail(u))

\* C17.  parseNutrientValue always returns a number: its argument when that
\* is a number; the value of the numeral when it is a string holding a
\* decimal numeral, written with a comma or a dot; 0 when it is a string
\* that does not start with a numeral; 0 for a value of any other type.
C17_Coerce ==
    (input.fn = "parseNutrientValue" /\ output # Pending) =>
        LET value == input.arg
        IN /\ typeOf(output) = "number"
           /\ typeOf(value) = "number" => output = value
           /\ (value.js = "string" /\ IsDecimal(value.value)) =>
                  output = DecimalValue(value.value)
           /\ (value.js = "string" /\ ~HasNumeralPrefix(value.value)) =>
                  output = Num(0)
           /\ typeOf(value) \notin {"number", "string"} => output = Num(0)

\* "1,5" has been coerced to 1.5
C17_Witness ==
    /\ input = [fn |-> "parseNutrientValue", arg |-> Str(<<"1", ",", "5">>)]
    /\ output = Norm(15, 1)

\* C18.  parseNutrientValue returns a number that is not NaN and is not
\* negative, whatever its argument.
C18_NonNegative ==
    (input.fn = "parseNutrientValue" /\ output # Pending) =>
        /\ output.js = "number"
        /\ output.num >= 0

\* an element that parseIngredients keeps: an object with a name that is
\* not empty
Survives(item) ==
    /\ item.js = "object"
    /\ "name" \in DOMAIN item.props
    /\ item.props.name \notin {Null, Undefined, Str(<<>>)}

\* a kept element as the result holds it
Normalized(item) ==
    Obj([key \in DOMAIN item.props \cup NutrientFields \cup {"weight"} |->
            CASE key \in NutrientFields ->
                     IF key \in DOMAIN item.props
                     THEN parseNutrientValue(item.props[key]) ELSE Num(0)
              [] key = "weight" ->
                     IF \/ "weight" \notin DOMAIN item.props
                        \/ parseNutrientValue(item.props.weight) = Num(0)
                     THEN Num(100)
                     ELSE parseNutrientValue(item.props.weight)
              [] OTHER -> item.props[key]])

\* C19.  parseIngredients returns null when its argument is not an array or
\* when no element is an object with a non-empty name; otherwise it returns
\* the elements that are, in their order, each with its nutrient fields
\* coerced and with the coerced weight, or 100 when that is 0 or the weight
\* is absent.  It never returns an empty list.
C19_Normalize ==
    (input.fn = "parseIngredients" /\ output # Pending) =>
        LET data == input.arg
            kept == IF data.js = "array" THEN SelectSeq(data.items, Survives)
                    ELSE <<>>
        IN /\ output # Arr(<<>>)
           /\ output = IF kept = <<>> THEN Null
                       ELSE Arr([i \in 1..Len(kept) |-> Normalized(kept[i])])

\* an array whose first element is dropped and whose second has no weight
\* has been normalized to the one element with weight 100
C19_Witness ==
    /\ input.fn = "parseIngredients"
    /\ input.arg.js = "array"
    /\ Len(input.arg.items) = 2
    /\ ~Survives(input.arg.items[1])
    /\ Survives(input.arg.items[2])
    /\ "weight" \notin DOMAIN input.arg.items[2].props
    /\ output.js = "array"
    /\ Len(output.items) = 1
    /\ output.items[1].props.weight = Num(100)

\* the text from its first { to its last }, when it has both in that order
BraceSpan(content) ==
    LET i == CHOOSE i \in 1..Len(content) :
                 content[i] = LBrace /\ \A k \in 1..(i - 1) : content[k] # LBrace
        j == CHOOSE j \in 1..Len(content) :
                 content[j] = RBrace /\ \A k \in (j + 1)..Len(content) : content[k] # RBrace
    IN SubSeq(content, i, j)
HasBraceSpan(content) ==
    \E i, j \in 1..Len(content) : i < j /\ content[i] = LBrace /\ content[j] = RBrace

\* an error that holds the text: the SyntaxError of a parse of that text; an
\* Error made from a literal message holds no text
CarriesText(error, text) ==
    error.js = "SyntaxError" /\ error.text = text

\* C20.  The JSON branch of callAI returns the parse of the content when the
\* content parses; otherwise the parse of the content from its first { to
\* its last }; when neither parses, or there is no { followed by a }, it
\* throws an error that carries the content.
C20_ExtractJson ==
    (input.fn = "extractJson" /\ output # Pending) =>
        LET content == input.arg
            direct == JSONparseText(content)
        IN IF direct.kind = "return" THEN output = direct
           ELSE IF HasBraceSpan(content)
                   /\ JSONparseText(BraceSpan(content)).kind = "return"
           THEN output = JSONparseText(BraceSpan(content))
           ELSE /\ output.kind = "throw"
                /\ CarriesText(output.error, content)

\* the five operations of aiService.ts that call the model
AIOperations ==
    {"fetchIngredientData", "analyzeTextWithAI", "analyzeImageWithAI",
     "calculateDailyGoals", "analyzeDailyIntake"}

\* C13: when the current provider has no token or no model, an AI operation
\* that has completed has thrown an error to its caller, and no request has
\* been issued.
C13_ConfigurationMissing ==
    (input.fn \in AIOperations /\ output # Pending /\ notConfigured(config)) =>
        /\ output.kind = "throw"
        /\ issued = 0 /\ inflight = {}

\* the response is a rejection or has a status that is not 2xx
IsTransportFailure(response) ==
    IF response.kind = "reject" THEN TRUE ELSE ~response.ok

\* the error is the rejection itself, or it holds the status and the status
\* text of the response
CarriesTransport(error, response) ==
    IF response.kind = "reject"
    THEN error = response.error
    ELSE /\ error.js = "Error"
         /\ Len(error.message) = 4
         /\ error.message[2] = response.status
         /\ error.message[4] = response.statusText

\* C14: when the transport has answered the request of an AI operation with
\* a network error or a status that is not 2xx, the operation has thrown an
\* error that carries the status and message of the failure, and has issued
\* no further request.
C14_TransportFailure ==
    ("response" \in DOMAIN op /\ IsTransportFailure(op.response)) =>
        /\ output.kind = "throw"
        /\ CarriesTransport(output.error, op.response)
        /\ \A request \in inflight : request.id # op.request.id

\* C15: of each resource (the meal analysis, the model list, the analysis
\* of a day) at most one request is outstanding.
C15_OneOutstanding ==
    \A resource \in {"mealAnalysis", "models", "dayAnalysis"} :
        Cardinality({request \in inflight : request.resource = resource}) <= 1

RECURSIVE dropWrapping(_)
dropWrapping(content) ==
    IF content = <<>> THEN <<>>
    ELSE IF Head(content) \in {Prose, Fence} THEN dropWrapping(Tail(content))
    ELSE IF content[Len(content)] \in {Prose, Fence}
    THEN dropWrapping(SubSeq(content, 1, Len(content) - 1))
    ELSE content

\* the content is prose or code fences around the text of an array from
\* which parseIngredients returns ingredients
IsWrappedIngredientArray(content) ==
    /\ dropWrapping(content) # content
    /\ JSONparseText(dropWrapping(content)).kind = "return"
    /\ parseIngredients(JSONparseText(dropWrapping(content)).value) # Null

\* C21: for an answer that is a valid ingredient array wrapped in prose or
\* code fences, the analysis returns the ingredients it returns for the
\* array alone.
C21_WrappedArrayRecovered ==
    (input.fn = "analyzeTextWithAISettle" /\ output # Pending
     /\ IsWrappedIngredientArray(input.arg)) =>
        output = Return(parseIngredients(JSONparseText(dropWrapping(input.arg)).value))

\* n / d rounded to the nearest integer, a half upwards
RoundHalfUp(n, d) == CHOOSE r \in 0..(n + 1) : 2 * d * r - d <= 2 * n /\ 2 * n < 2 * d * r + d

\* the sum of the weights of a list
RECURSIVE SumWeights(_)
SumWeights(list) ==
    IF list = <<>> THEN 0 ELSE Head(list).weight + SumWeights(Tail(list))

\* the sum of the rounded calories of the ingredients of a list
RECURSIVE SumRoundedCalories(_)
SumRoundedCalories(list) ==
    IF list = <<>> THEN 0
    ELSE RoundHalfUp(Head(list).baseCPFC.calories * Head(list).weight, 100)
         + SumRoundedCalories(Tail(list))

\* C22: the weight calculateTotals returns is the sum of the weights, and
\* its calories are the sum of the calories of each ingredient for its
\* weight, each rounded to the nearest integer before the sum.
C22_TotalsRoundPerIngredient ==
    (input.fn = "calculateTotals" /\ output # Pending) =>
        /\ output.weight = SumWeights(input.arg)
        /\ output.calories = SumRoundedCalories(input.arg)

\* ------------------------------------------------ the draft of the builder
\* what the user types into the weight input of DishBuilder (type="number",
\* min="0": the attribute bounds the stepper, not the text)
WeightTexts == { <<>>, <<"-", "5">>, <<"1", "2", "0">> }

\* parseInt(text, 10): leading blanks, a sign and digits; NaN without a digit
parseInt(chars) ==
    LET trimmed == skipSpaces(chars)
        signed == trimmed # <<>> /\ Head(trimmed) \in {"-", "+"}
        negative == signed /\ Head(trimmed) = "-"
        int == digitPrefix(IF signed THEN Tail(trimmed) ELSE trimmed)
    IN IF int = <<>> THEN NaN
       ELSE Num(IF negative THEN -digitsValue(int, 0) ELSE digitsValue(int, 0))

\* the arrays of ingredients MealAnalyzer hands to onAnalysisComplete: what
\* parseIngredients makes of the answers of a model
AnalyzedAnswers ==
    { Arr(<<Obj([name |-> Str(<<"a">>), calories |-> Num(52),
                 weight |-> Norm(705, 1)])>>),
      Arr(<<Obj([name |-> Str(<<"b">>), calories |-> Num(-5)])>>) }

\* the ids crypto.randomUUID gives to the ingredients of an analysis
AnalysisIds == <<"a1", "a2", "a3">>

RECURSIVE joinChars(_)
joinChars(chars) ==
    IF chars = <<>> THEN "" ELSE Head(chars) \o joinChars(Tail(chars))

\* an ingredient of newIngredients as the draft holds it: whole numbers
draftIngredient(ing, id) ==
    [id |-> id,
     name |-> joinChars(ing.name.value),
     weight |-> ing.weight.num,
     baseCPFC |-> [calories |-> ing.baseCPFC["calories"].num,
                   protein |-> ing.baseCPFC["protein"].num,
                   fat |-> ing.baseCPFC["fat"].num,
                   carbohydrate |-> ing.baseCPFC["carbohydrate"].num,
                   fiber |-> ing.baseCPFC["fiber"].num]]

handleAnalysisComplete(analyzedIngredients) ==
    /\ Idle
    /\ bootStore' = EmptyStore
    /\ Len(dishIngredients) + Len(analyzedIngredients) <= MaxItems
    /\ \A i \in 1..Len(dishIngredients) :
           \A j \in 1..Len(AnalysisIds) : dishIngredients[i].id # AnalysisIds[j]
    /\ dishIngredients' = dishIngredients \o
           [i \in 1..Len(analyzedIngredients) |->
               draftIngredient(newIngredients(analyzedIngredients)[i], AnalysisIds[i])]
    /\ op' = [name |-> "analysisComplete"]
    /\ UNCHANGED <<store, config, history, savedDishes, userProfile,
                   queued, effects, uuid>>
    /\ UNCHANGED otherVars

handleCalculatePer100gChange(isChecked) ==
    /\ Idle
    /\ bootStore' = EmptyStore
    /\ dishIngredients' =
           IF isChecked /\ Len(dishIngredients) > 0
           THEN [i \in 1..Len(dishIngredients) |->
                    [dishIngredients[i] EXCEPT !.weight = 100]]
           ELSE dishIngredients
    /\ op' = [name |-> "calculatePer100gChange", isChecked |-> isChecked]
    /\ UNCHANGED <<store, config, history, savedDishes, userProfile,
                   queued, effects, uuid>>
    /\ UNCHANGED otherVars

\* onChange of the weight input: onUpdateWeight(item.id, parseInt(value, 10))
handleUpdateIngredientWeight(id, text) ==
    /\ Idle
    /\ bootStore' = EmptyStore
    /\ \E i \in 1..Len(dishIngredients) : dishIngredients[i].id = id
    /\ LET weight == parseInt(text)
       IN dishIngredients' =
              [i \in 1..Len(dishIngredients) |->
                  IF dishIngredients[i].id = id
                  THEN [dishIngredients[i] EXCEPT
                           !.weight = IF weight = NaN THEN 0 ELSE weight.num]
                  ELSE dishIngredients[i]]
    /\ op' = [name |-> "updateIngredientWeight", id |-> id]
    /\ UNCHANGED <<store, config, history, savedDishes, userProfile,
                   queued, effects, uuid>>
    /\ UNCHANGED otherVars

DraftIds == {"i1", "a1"}

\* the meals recorded from the draft in one run
MaxDraftMeals == 1

NextDraft ==
    \/ LoadEffect
    \/ Render
    \/ PersistEffect
    \/ MigrationEffect
    \/ \E ingredient \in IngredientPool : handleAddIngredient(ingredient)
    \/ \E answer \in AnalyzedAnswers : handleAnalysisComplete(answer.items)
    \/ \E isChecked \in BOOLEAN : handleCalculatePer100gChange(isChecked)
    \/ \E id \in DraftIds, text \in WeightTexts : handleUpdateIngredientWeight(id, text)
    \/ \E today \in Dates, mealType \in MealTypes :
           uuid < MaxDraftMeals /\ handleSaveDish(today, mealType)

SpecDraft == InitFresh /\ [][NextDraft]_vars

NonNegativeIngredient(item) ==
    /\ item.weight >= 0
    /\ \A key \in NutrientFields : item.baseCPFC[key] >= 0

\* C23: every ingredient of the draft and of every meal of the history has a
\* weight of at least 0 and non-negative calories, protein, fat, carbohydrate
\* and fiber, whatever analyses, additions, weight edits and per-100g toggles
\* came before.
C23_IngredientsNonNegative ==
    /\ \A i \in 1..Len(dishIngredients) : NonNegativeIngredient(dishIngredients[i])
    /\ \A date \in DOMAIN history :
           \A m \in 1..Len(history[date].meals) :
               \A j \in 1..Len(history[date].meals[m].ingredients) :
                   NonNegativeIngredient(history[date].meals[m].ingredients[j])

\* the goal a percentage is taken against
goalOf(dailyGoals, field) ==
    IF field = "calories" THEN dailyGoals.targetCalories ELSE dailyGoals[field]

\* 100 * actual as the totals hold it: kcal, and hundredths of a gram
hundredTimes(dailyTotals, field) ==
    IF field = "calories" THEN 100 * dailyTotals.calories ELSE dailyTotals[field]

\* C24: calculateProgressPercentages returns null when dailyGoals is absent;
\* otherwise each of calories (against targetCalories), protein, fat,
\* carbohydrate and fiber is round(100 * actual / goal) when the goal is
\* greater than 0, and 0 when the goal is 0 or negative.
C24_ProgressPercentages ==
    (input.fn = "calculateProgressPercentages" /\ output # Pending) =>
        IF ~Truthy(input.arg.dailyGoals) THEN output = Null
        ELSE \A field \in NutrientFields :
                output[field] =
                    IF goalOf(input.arg.dailyGoals, field) > 0
                    THEN RoundHalfUp(hundredTimes(input.arg.dailyTotals, field),
                                     goalOf(input.arg.dailyGoals, field))
                    ELSE 0

\* C25: calculatePer100g returns the record of zeros for the empty list and
\* for every list whose weights sum to 0.
C25_Per100gOfNoWeight ==
    (input.fn = "calculatePer100g" /\ output # Pending /\ SumWeights(input.arg) = 0) =>
        \A field \in NutrientFields : output[field] = 0

\* a list of ingredients that weigh nothing has been scaled
C25_Witness ==
    /\ input.fn = "calculatePer100g" /\ output # Pending
    /\ input.arg # <<>> /\ SumWeights(input.arg) = 0
    /\ \E i \in 1..Len(input.arg) : input.arg[i].baseCPFC.calories > 0

\* the store the session started from holds a history with a date, and the
\* user has not acted yet
BootedWithHistory ==
    /\ "meal-history" \in DOMAIN bootStore
    /\ ~parseThrows(bootStore["meal-history"])
    /\ DOMAIN JSONparse(bootStore["meal-history"]) # {}

\* C26: start-up does not lose the stored history: when meal-history holds a
\* parsable history with a date and the profile has no goals, then once the
\* load effect, the persist effect (run while the history in memory is still
\* empty) and the render after them with its effects are done, the history
\* in memory and the stored meal-history are the value stored before.
C26_StartupKeepsHistory ==
    (/\ StartedUp /\ Idle
     /\ BootedWithHistory
     /\ ~Truthy(dailyGoalsOf(userProfile))) =>
        /\ history = JSONparse(bootStore["meal-history"])
        /\ "meal-history" \in DOMAIN store
        /\ ~parseThrows(store["meal-history"])
        /\ JSONparse(store["meal-history"]) = JSONparse(bootStore["meal-history"])

\* the persist effect has written back the history the render brought in,
\* after the first persist effect had removed the key
C26_Witness ==
    /\ StartedUp /\ Idle
    /\ BootedWithHistory
    /\ ~Truthy(dailyGoalsOf(userProfile))
    /\ op.name = "persist"
    /\ DOMAIN history # {}

\* the rows of a date, and the sum of their calories
rowsOf(rows, date) == SelectSeq(rows, LAMBDA row : row.date = date)

RECURSIVE SumRowCalories(_)
SumRowCalories(rows) ==
    IF rows = <<>> THEN 0 ELSE Head(rows).calories + SumRowCalories(Tail(rows))

\* the dailyTotals of every date are the totals of its ingredients
HasDailyTotals(h) ==
    \A d \in DOMAIN h : h[d].dailyTotals = calculateTotals(IngredientsOf(h, d))

\* C27: for a history that satisfies the dailyTotals invariant and a date of
\* it (inside the range, when the export is given one), the calories of the
\* rows of the date sum to the dailyTotals.calories of the date, and the date
\* has as many rows as its meals have ingredients.
C27_ExportMatchesTotals ==
    (/\ input.fn = "prepareExportData" /\ output # Pending
     /\ HasDailyTotals(input.arg.history)) =>
        \A d \in DOMAIN input.arg.history :
            inRange(d, input.arg.startDate, input.arg.endDate) =>
                /\ SumRowCalories(rowsOf(output.items, d))
                     = input.arg.history[d].dailyTotals.calories
                /\ Len(rowsOf(output.items, d)) = Len(IngredientsOf(input.arg.history, d))

\* a history of two dates was exported whole, one date having two rows that
\* round differently than their sum
C27_Witness ==
    /\ input.fn = "prepareExportData" /\ output # Pending
    /\ HasDailyTotals(input.arg.history)
    /\ input.arg.startDate = Undefined /\ input.arg.endDate = Undefined
    /\ \E d \in DOMAIN input.arg.history :
          /\ Len(rowsOf(output.items, d)) = 2
          /\ input.arg.history[d].dailyTotals.calories = 259

\* C28: saving a draft of one ingredient to the dish library keeps its
\* per-100g calories: for an ingredient of weight > 0 and whole per-100g
\* calories c, calculatePer100g of the list of that ingredient has calories c.
C28_Per100gKeepsCalories ==
    (/\ input.fn = "calculatePer100g" /\ output # Pending
     /\ Len(input.arg) = 1
     /\ input.arg[1].weight > 0) =>
        output.calories = input.arg[1].baseCPFC.calories

\* progressPercentages follow the goals of the profile, and are absent
\* without goals
HasProgress(h, profile) ==
    \A d \in DOMAIN h :
        Get(h[d], "progressPercentages")
          = orUndefined(calculateProgressPercentages(
                h[d].dailyTotals, orNull(dailyGoalsOf(profile))))

\* a history as the ledger keeps it: no DayEntry without a meal, and the two
\* invariants of a DayEntry
IsLedgerHistory(h, profile) ==
    /\ \A d \in DOMAIN h : Len(h[d].meals) > 0
    /\ HasDailyTotals(h)
    /\ HasProgress(h, profile)

fetchedFor(providerId) ==
    fetchModelsSettle(OkResponse([data |-> ModelsOf(providerId)])).value

\* C30: under any interleaving of provider selection, fetch of the models,
\* arrival of the response and save, the models saved for a provider id are
\* the empty list, the list stored for that provider before, or a list
\* fetched with that provider id: the response of a fetch started for one
\* provider is not saved under another provider selected meanwhile.
C30_SavedModelsOfProvider ==
    [][ op'.name = "handleSave" =>
          LET providerId == config'.currentProviderId
              saved == config'.providers[providerId].models
          IN \/ saved = <<>>
             \/ /\ config # Null
                /\ providerId \in DOMAIN config.providers
                /\ saved = modelsOr(config.providers[providerId])
             \/ saved = fetchedFor(providerId) ]_vars

====
